---- MODULE Spec2Model ----
(***************************************************************************)
(* A model of the query compiler of nestjs-query-mikro-orm: the predicate  *)
(* compiler (WhereBuilder), the operator mapper (SQLComparisonBuilder),    *)
(* the relation reference resolver (FilterQueryBuilder), the aggregate     *)
(* codec (AggregateBuilder) and the relation linker (RelationQueryBuilder).*)
(* The compilers are pure functions: each specification draws the          *)
(* arguments of one call in Init and its actions apply the function.       *)
(***************************************************************************)
EXTENDS Integers, Sequences, FiniteSets, TLC

VARIABLES
    pc,         \* "start" before the call is made, "done" once it returned or threw
    filter,     \* WhereBuilder.build: the Filter argument
    where,      \* WhereBuilder.build: what the call returned or threw
    cmp,        \* SQLComparisonBuilder.build: the arguments (field, cmp, val)
    cmpOut,     \* SQLComparisonBuilder.build: what the call returned or threw
    relCall,    \* getReferencedRelationsRecursive: the arguments (metadata, filter)
    relOut,     \* getReferencedRelationsRecursive: the NestedRecord returned
    aggCall,    \* AggregateBuilder.build: the arguments (qb, aggregate, alias)
    aggSelects, \* AggregateBuilder.build: the selects added to qb, or what it threw
    aggRows,    \* the raw rows handed to convertToAggregateResponse
    aggOut,     \* convertToAggregateResponse: what the call returned or threw
    linkCall,   \* buildWhereCondition: the arguments (entity, relationMeta) and the metadata
    linkOut,    \* buildWhereCondition: the condition returned
    rqbCall,    \* RelationQueryBuilder: the repository, the relation and the arguments of the call
    rqb,        \* RelationQueryBuilder: the builder constructed
    rqbOut,     \* RelationQueryBuilder: the query of select, count or aggregate, or what was thrown
    fqbCall,    \* FilterQueryBuilder: the repository and the arguments of the call
    fqbOut,     \* FilterQueryBuilder: the query of select or aggregate, or what was thrown
    aggregateQb, \* aggregate of either builder: the QueryBuilder it made, as the call left it
    batchCall,  \* batch relation loading: the method, its arguments and the database
    executions, \* batch relation loading: the state of the promise of each entity
    resultsMap, \* batch relation loading: the Map the callbacks set their results in
    batchOut,   \* batch relation loading: what the caller received, a Map or a failure
    memCall, \* frame of the inputs: the operation called and its arguments
    heap, \* frame of the inputs: the memory, every object and array a cell of it
    roots, \* frame of the inputs: the references to the arguments in memory
    memOut,\* frame of the inputs: what each call so far returned or threw
    service, \* the query service: its repository and its useSoftDelete option
    serviceCall, \* the last call of a method of the service
    manager \* the EntityManager as the last call left it: the store, and what the call did and gave

vars == <<pc, filter, where, cmp, cmpOut, relCall, relOut, aggCall, aggSelects, aggRows, aggOut,
          linkCall, linkOut, rqbCall, rqb, rqbOut, fqbCall, fqbOut, aggregateQb,
          batchCall, executions, resultsMap, batchOut,
          memCall, heap, roots, memOut,
          service, serviceCall, manager>>
whereVars == <<filter, where, cmp, cmpOut>>
relVars == <<relCall, relOut>>
aggVars == <<aggCall, aggSelects, aggRows, aggOut>>
linkVars == <<linkCall, linkOut>>
rqbVars == <<rqbCall, rqb, rqbOut>>
fqbVars == <<fqbCall, fqbOut, aggregateQb>>
batchVars == <<batchCall, executions, resultsMap, batchOut>>
memVars == <<memCall, heap, roots, memOut>>
svcVars == <<service, serviceCall, manager>>

(***************************************************************************)
(* Bounds of the model.                                                    *)
(***************************************************************************)
MaxNum == 3         \* number operands are 0..MaxNum
MaxList == 2        \* and/or lists hold at most MaxList children
MaxRelList == 2     \* and/or lists given to the relation resolver hold at most MaxRelList children
MaxFields == 2      \* an AggregateQuery selects at most MaxFields fields
MaxProps == 3       \* a source entity has at most MaxProps properties

(***************************************************************************)
(* JavaScript values.  An object is the sequence of its own enumerable     *)
(* entries <<key, value>> in insertion order (the order of Object.keys),   *)
(* an array the sequence of its items, a string the sequence of its        *)
(* characters.                                                             *)
(***************************************************************************)
Undefined == [t |-> "undefined", v |-> 0]
Null == [t |-> "null", v |-> 0]
Bool(b) == [t |-> "boolean", v |-> b]
Num(n) == [t |-> "number", v |-> n]
Str(chars) == [t |-> "string", v |-> chars]
Arr(items) == [t |-> "array", v |-> items]
Obj(entries) == [t |-> "object", v |-> entries]

\* typeof x
TypeOf(x) == IF x.t \in {"null", "array", "object"} THEN "object" ELSE x.t

\* the truthiness of x, as tested by `if (x)` and `x && y`
Truthy(x) ==
    CASE x.t \in {"undefined", "null"} -> FALSE
      [] x.t = "boolean" -> x.v
      [] x.t = "number" -> x.v # 0
      [] x.t = "string" -> x.v # <<>>
      [] OTHER -> TRUE

\* Object.keys(x)
Keys(x) ==
    CASE x.t = "object" -> [i \in 1..Len(x.v) |-> x.v[i][1]]
      [] x.t \in {"array", "string"} -> [i \in 1..Len(x.v) |-> ToString(i - 1)]
      [] OTHER -> <<>>

\* key in x
HasProp(x, key) == \E i \in 1..Len(Keys(x)) : Keys(x)[i] = key

\* x[key]
Get(x, key) ==
    IF ~HasProp(x, key) THEN Undefined
    ELSE LET i == CHOOSE j \in 1..Len(Keys(x)) : Keys(x)[j] = key
         IN CASE x.t = "object" -> x.v[i][2]
              [] x.t = "array" -> x.v[i]
              [] OTHER -> Str(<<x.v[i]>>)

\* x.length
Length(x) == IF x.t \in {"array", "string"} THEN Len(x.v) ELSE 0

\* the object o after o[key] = value
SetProp(o, key, value) ==
    IF HasProp(o, key)
    THEN Obj([i \in 1..Len(o.v) |-> IF o.v[i][1] = key THEN <<key, value>> ELSE o.v[i]])
    ELSE Obj(Append(o.v, <<key, value>>))

RECURSIVE ObjectAssignFrom(_, _, _)
ObjectAssignFrom(target, source, i) ==
    IF i > Len(source.v) THEN target
    ELSE ObjectAssignFrom(SetProp(target, source.v[i][1], source.v[i][2]), source, i + 1)

\* Object.assign(target, source): the source's entries override the target's
ObjectAssign(target, source) == ObjectAssignFrom(target, source, 1)

\* What a call did: it returned val, or it threw an Error whose message is the
\* text `msg` followed by the interpolated value `arg`.
Return(val) == [ok |-> TRUE, val |-> val]
Throw(msg, arg) == [ok |-> FALSE, val |-> [msg |-> msg, arg |-> arg]]

\* The value interpolated into a message: `${x}` and `${JSON.stringify(x)}`
Interpolate(x) == [json |-> FALSE, x |-> x]
JSONStringify(x) == [json |-> TRUE, x |-> x]

(***************************************************************************)
(* Operator names.  String.prototype.toLowerCase over the keys the model   *)
(* uses.                                                                   *)
(***************************************************************************)
ToLowerCase(s) ==
    CASE s = "notLike" -> "notlike"
      [] s = "iLike" -> "ilike"
      [] s = "notILike" -> "notilike"
      [] s = "notIn" -> "notin"
      [] s = "isNot" -> "isnot"
      [] s = "notBetween" -> "notbetween"
      [] s = "EQ" -> "eq"
      [] OTHER -> s

KNOWN_OPERATORS ==
    {"eq", "neq", "gt", "gte", "lt", "lte", "like", "notlike", "ilike", "notilike",
     "in", "notin", "is", "isnot", "between", "notbetween"}

(***************************************************************************)
(* WhereBuilder                                                            *)
(***************************************************************************)
isBetweenValue(val) ==
    val.t # "null" /\ TypeOf(val) = "object" /\ HasProp(val, "lower") /\ HasProp(val, "upper")

mapOperator(operator, value) ==
    LET normalizedOp == ToLowerCase(operator) IN
    CASE normalizedOp = "eq" -> Return(Obj(<< <<"$eq", value>> >>))
      [] normalizedOp = "neq" -> Return(Obj(<< <<"$ne", value>> >>))
      [] normalizedOp = "gt" -> Return(Obj(<< <<"$gt", value>> >>))
      [] normalizedOp = "gte" -> Return(Obj(<< <<"$gte", value>> >>))
      [] normalizedOp = "lt" -> Return(Obj(<< <<"$lt", value>> >>))
      [] normalizedOp = "lte" -> Return(Obj(<< <<"$lte", value>> >>))
      [] normalizedOp = "like" -> Return(Obj(<< <<"$like", value>> >>))
      [] normalizedOp = "notlike" ->
            Return(Obj(<< <<"$not", Obj(<< <<"$like", value>> >>)>> >>))
      [] normalizedOp = "ilike" -> Return(Obj(<< <<"$ilike", value>> >>))
      [] normalizedOp = "notilike" ->
            Return(Obj(<< <<"$not", Obj(<< <<"$ilike", value>> >>)>> >>))
      [] normalizedOp = "in" -> Return(Obj(<< <<"$in", value>> >>))
      [] normalizedOp = "notin" -> Return(Obj(<< <<"$nin", value>> >>))
      [] normalizedOp = "is" ->
            IF value = Null \/ value = Bool(TRUE) \/ value = Bool(FALSE)
            THEN Return(Obj(<< <<"$eq", value>> >>))
            ELSE Throw("Unexpected is operator param ", JSONStringify(value))
      [] normalizedOp = "isnot" ->
            IF value = Null \/ value = Bool(TRUE) \/ value = Bool(FALSE)
            THEN Return(Obj(<< <<"$ne", value>> >>))
            ELSE Throw("Unexpected isNot operator param ", JSONStringify(value))
      [] normalizedOp = "between" ->
            IF isBetweenValue(value)
            THEN Return(Obj(<< <<"$gte", Get(value, "lower")>>,
                               <<"$lte", Get(value, "upper")>> >>))
            ELSE Throw("Invalid value for between expected {lower: val, upper: val} got ",
                       JSONStringify(value))
      [] normalizedOp = "notbetween" ->
            IF isBetweenValue(value)
            THEN Return(Obj(<< <<"$or", Arr(<< Obj(<< <<"$lt", Get(value, "lower")>> >>),
                                               Obj(<< <<"$gt", Get(value, "upper")>> >>) >>)>> >>))
            ELSE Throw("Invalid value for not between expected {lower: val, upper: val} got ",
                       JSONStringify(value))
      [] OTHER -> Throw("Unknown operator ", Interpolate(operator))

\* the loop of buildComparison from its i-th operator on, conditions being the
\* object assembled so far; a throw of mapOperator ends it
RECURSIVE buildComparisonFrom(_, _, _)
buildComparisonFrom(comparison, conditions, i) ==
    IF i > Len(Keys(comparison)) THEN Return(conditions)
    ELSE LET operator == Keys(comparison)[i]
             mikroOrmOp == mapOperator(operator, Get(comparison, operator))
         IN IF ~mikroOrmOp.ok THEN mikroOrmOp
            ELSE buildComparisonFrom(comparison, ObjectAssign(conditions, mikroOrmOp.val), i + 1)

buildComparison(comparison) == buildComparisonFrom(comparison, Obj(<<>>), 1)

\* a mutant of isComparisonObject: every plain object is a comparison
isComparisonObjectAlways(obj) ==
    ~(obj.t = "null" \/ TypeOf(obj) # "object" \/ obj.t = "array")

isComparisonObject(obj) ==
    IF obj.t = "null" \/ TypeOf(obj) # "object" \/ obj.t = "array" THEN FALSE
    ELSE \E i \in 1..Len(Keys(obj)) : ToLowerCase(Keys(obj)[i]) \in KNOWN_OPERATORS

\* array.map(f) over the results of f: the first throw, or the array of the values
MapResults(results) ==
    IF \E i \in 1..Len(results) : ~results[i].ok
    THEN results[CHOOSE i \in 1..Len(results) :
                    ~results[i].ok /\ \A j \in 1..(i - 1) : results[j].ok]
    ELSE Return(Arr([i \in 1..Len(results) |-> results[i].val]))

\* a mutant of CombineConditions: the last group stands for them all
CombineConditionsLast(conditions) ==
    IF Len(conditions) = 0 THEN Obj(<<>>) ELSE conditions[Len(conditions)]

\* the end of WhereBuilder.build: the conditions of the node under one $and
CombineConditions(conditions) ==
    IF Len(conditions) = 0 THEN Obj(<<>>)
    ELSE IF Len(conditions) = 1 THEN conditions[1]
    ELSE Obj(<< <<"$and", Arr(conditions)>> >>)

\* a mutant of LogicalGroup: a list of one child is that child
LogicalGroupCollapsed(op, children) ==
    IF Len(children.v) = 1 THEN children.v[1] ELSE Obj(<< <<op, children>> >>)

\* { $and: andConditions } and { $or: orConditions }
LogicalGroup(op, children) == Obj(<< <<op, children>> >>)

RECURSIVE WhereBuilderBuild(_)
RECURSIVE buildFieldComparisonsFrom(_, _, _)

\* the forEach of buildFieldComparisons from the i-th key of the filter on
buildFieldComparisonsFrom(f, result, i) ==
    IF i > Len(Keys(f)) THEN Return(result)
    ELSE LET field == Keys(f)[i]
             comparison == Get(f, field)
         IN IF field = "and" \/ field = "or" \/ ~Truthy(comparison)
            THEN buildFieldComparisonsFrom(f, result, i + 1)
            ELSE LET built == IF TypeOf(comparison) = "object" /\ ~isComparisonObject(comparison)
                              THEN WhereBuilderBuild(comparison)
                              ELSE buildComparison(comparison)
                 IN IF ~built.ok THEN built
                    ELSE buildFieldComparisonsFrom(f, SetProp(result, field, built.val), i + 1)

buildFieldComparisons(f) == buildFieldComparisonsFrom(f, Obj(<<>>), 1)

WhereBuilderBuild(f) ==
    LET and == Get(f, "and")
        or == Get(f, "or")
        hasAnd == Truthy(and) /\ Length(and) # 0
        hasOr == Truthy(or) /\ Length(or) # 0
        andConditions == IF hasAnd
                         THEN MapResults([i \in 1..Len(and.v) |-> WhereBuilderBuild(and.v[i])])
                         ELSE Return(Arr(<<>>))
        orConditions == IF hasOr
                        THEN MapResults([i \in 1..Len(or.v) |-> WhereBuilderBuild(or.v[i])])
                        ELSE Return(Arr(<<>>))
        fieldConditions == buildFieldComparisons(f)
    IN IF ~andConditions.ok THEN andConditions
       ELSE IF ~orConditions.ok THEN orConditions
       ELSE IF ~fieldConditions.ok THEN fieldConditions
       ELSE Return(CombineConditions(
                (IF hasAnd THEN <<LogicalGroup("$and", andConditions.val)>> ELSE <<>>)
                \o (IF hasOr THEN <<LogicalGroup("$or", orConditions.val)>> ELSE <<>>)
                \o (IF Len(Keys(fieldConditions.val)) > 0 THEN <<fieldConditions.val>> ELSE <<>>)))

(***************************************************************************)
(* SQLComparisonBuilder                                                    *)
(***************************************************************************)
FieldIs(field, fragment) == Obj(<< <<field, Obj(fragment)>> >>)

\* a mutant of isComparison: every falsy operand is taken as null or false
isComparisonFalsy(field, val) ==
    IF ~Truthy(val) \/ val = Bool(TRUE)
    THEN Return(FieldIs(field, << <<"$eq", val>> >>))
    ELSE Throw("Unexpected is operator param ", JSONStringify(val))

isComparison(field, val) ==
    IF val = Null \/ val = Bool(TRUE) \/ val = Bool(FALSE)
    THEN Return(FieldIs(field, << <<"$eq", val>> >>))
    ELSE Throw("Unexpected is operator param ", JSONStringify(val))

isNotComparison(field, val) ==
    IF val = Null \/ val = Bool(TRUE) \/ val = Bool(FALSE)
    THEN Return(FieldIs(field, << <<"$ne", val>> >>))
    ELSE Throw("Unexpected isNot operator param ", JSONStringify(val))

\* checkNonEmptyArray(val): what it throws, or Return(Undefined)
checkNonEmptyArray(val) ==
    IF val.t # "array"
    THEN Throw("Invalid in value expected an array got ", JSONStringify(val))
    ELSE IF Len(val.v) = 0
    THEN Throw("Invalid in value expected a non-empty array got ", JSONStringify(val))
    ELSE Return(Undefined)

\* a mutant of isBetweenVal: only the key lower is looked for
isBetweenValLower(val) ==
    val.t # "null" /\ TypeOf(val) = "object" /\ HasProp(val, "lower")

isBetweenVal(val) ==
    val.t # "null" /\ TypeOf(val) = "object" /\ HasProp(val, "lower") /\ HasProp(val, "upper")

betweenComparison(field, val) ==
    IF isBetweenVal(val)
    THEN Return(FieldIs(field, << <<"$gte", Get(val, "lower")>>, <<"$lte", Get(val, "upper")>> >>))
    ELSE Throw("Invalid value for between expected {lower: val, upper: val} got ",
               JSONStringify(val))

notBetweenComparison(field, val) ==
    IF isBetweenVal(val)
    THEN Return(Obj(<< <<"$or", Arr(<< FieldIs(field, << <<"$lt", Get(val, "lower")>> >>),
                                       FieldIs(field, << <<"$gt", Get(val, "upper")>> >>) >>)>> >>))
    ELSE Throw("Invalid value for not between expected {lower: val, upper: val} got ",
               JSONStringify(val))

SQLComparisonBuilderBuild(field, op, val) ==
    LET normalizedCmp == ToLowerCase(op) IN
    CASE normalizedCmp = "eq" -> Return(FieldIs(field, << <<"$eq", val>> >>))
      [] normalizedCmp = "neq" -> Return(FieldIs(field, << <<"$ne", val>> >>))
      [] normalizedCmp = "gt" -> Return(FieldIs(field, << <<"$gt", val>> >>))
      [] normalizedCmp = "gte" -> Return(FieldIs(field, << <<"$gte", val>> >>))
      [] normalizedCmp = "lt" -> Return(FieldIs(field, << <<"$lt", val>> >>))
      [] normalizedCmp = "lte" -> Return(FieldIs(field, << <<"$lte", val>> >>))
      [] normalizedCmp = "like" -> Return(FieldIs(field, << <<"$like", val>> >>))
      [] normalizedCmp = "notlike" ->
            Return(FieldIs(field, << <<"$not", Obj(<< <<"$like", val>> >>)>> >>))
      [] normalizedCmp = "ilike" -> Return(FieldIs(field, << <<"$ilike", val>> >>))
      [] normalizedCmp = "notilike" ->
            Return(FieldIs(field, << <<"$not", Obj(<< <<"$ilike", val>> >>)>> >>))
      [] normalizedCmp = "is" -> isComparison(field, val)
      [] normalizedCmp = "isnot" -> isNotComparison(field, val)
      [] normalizedCmp = "in" ->
            IF ~checkNonEmptyArray(val).ok THEN checkNonEmptyArray(val)
            ELSE Return(FieldIs(field, << <<"$in", val>> >>))
      [] normalizedCmp = "notin" ->
            IF ~checkNonEmptyArray(val).ok THEN checkNonEmptyArray(val)
            ELSE Return(FieldIs(field, << <<"$nin", val>> >>))
      [] normalizedCmp = "between" -> betweenComparison(field, val)
      [] normalizedCmp = "notbetween" -> notBetweenComparison(field, val)
      [] OTHER -> Throw("Unknown operator ", JSONStringify(op))

(***************************************************************************)
(* The calls of the predicate compiler: the filters and comparisons a      *)
(* caller may pass.                                                        *)
(***************************************************************************)
NoCall == Undefined
NoResult == Return(Undefined)

Field(name, value) == << <<name, value>> >>
Filter1(name, value) == Obj(Field(name, value))
Cmp1(op, value) == Obj(<< <<op, value>> >>)
Between(lower, upper) == Obj(<< <<"lower", Num(lower)>>, <<"upper", Num(upper)>> >>)

Numbers == {Num(n) : n \in 0..MaxNum}

\* the operands { lower, upper } of between and notBetween
Ranges == {Between(l, u) : l, u \in 0..MaxNum}

OperandValues ==
    Numbers \cup Ranges \cup
    {Undefined, Null, Bool(TRUE), Bool(FALSE), Str(<<>>), Str(<<"f">>),
     Arr(<<>>), Arr(<<Num(1)>>), Arr(<<Num(1), Num(2)>>),
     Between(1, 2), Obj(<< <<"lower", Num(1)>> >>), Obj(<<>>)}

\* the operator keys as the Filter type spells them
OperatorKeys ==
    {"eq", "neq", "gt", "gte", "lt", "lte", "like", "notLike", "iLike", "notILike",
     "in", "notIn", "is", "isNot", "between", "notBetween"}

\* keys that are no operator of the Filter type
UnknownKeys == {"bogus"}

AllKeys == OperatorKeys \cup UnknownKeys \cup {"EQ"}

\* operands that meet the operand contract of an operator
ValidOperands(op) ==
    CASE ToLowerCase(op) \in {"eq", "neq", "gt", "gte", "lt", "lte"} -> Numbers
      [] ToLowerCase(op) \in {"like", "notlike", "ilike", "notilike"} -> {Str(<<"f">>)}
      [] ToLowerCase(op) \in {"in", "notin"} -> {Arr(<<Num(1)>>), Arr(<<Num(1), Num(2)>>)}
      [] ToLowerCase(op) \in {"is", "isnot"} -> {Null, Bool(TRUE), Bool(FALSE)}
      [] ToLowerCase(op) \in {"between", "notbetween"} -> {Between(1, 2)}
      [] OTHER -> {Num(1)}

\* field comparisons of one operator key, with any operand
Comparisons1 == {Cmp1(op, v) : op \in AllKeys, v \in OperandValues}

\* field comparisons of two operator keys, each with an operand of its contract
Comparisons2 ==
    UNION {UNION {{Obj(<< <<op1, v1>>, <<op2, v2>> >>) :
                        v1 \in ValidOperands(op1), v2 \in ValidOperands(op2)} :
                  op2 \in (OperatorKeys \cup UnknownKeys) \ {op1}} :
           op1 \in OperatorKeys \cup UnknownKeys}

\* filters of one field entry
LeafFilters == {Filter1("a", c) : c \in Comparisons1 \cup Comparisons2}

\* the children of and/or lists
ChildFilters ==
    {Obj(<<>>),
     Filter1("a", Cmp1("eq", Num(1))),
     Filter1("a", Cmp1("eq", Num(2))),
     Filter1("a", Cmp1("bogus", Num(1)))}

\* the arrays of at most n children
ChildLists(n) == UNION {[1..k -> ChildFilters] : k \in 0..n}

\* the field entries beside and/or at a node
SiblingFields ==
    {<<>>,
     Field("b", Cmp1("eq", Num(3))),
     Field("b", Obj(<< <<"gt", Num(1)>>, <<"lt", Num(2)>> >>)),
     Field("b", Cmp1("in", Arr(<<>>))),
     Field("rel", Filter1("x", Cmp1("eq", Num(1)))),
     Field("a", Cmp1("eq", Num(1))) \o Field("b", Cmp1("eq", Num(3)))}

LogicalEntries(key, n) == {<<>>} \cup {Field(key, Arr(l)) : l \in ChildLists(n)}

\* filter nodes with and/or lists of at most n children and sibling field entries
NodeFiltersOf(n) ==
    {Obj(a \o o \o f) : a \in LogicalEntries("and", n), o \in LogicalEntries("or", n),
                        f \in SiblingFields}

NodeFilters == NodeFiltersOf(MaxList)

\* a filter under a list of one child, and a filter as a nested relation filter
WrappedFilters ==
    UNION {{Filter1("and", Arr(<<g>>)), Filter1("or", Arr(<<g>>)), Filter1("rel", g)} :
           g \in LeafFilters \cup NodeFiltersOf(1)}

Filters == LeafFilters \cup NodeFilters \cup WrappedFilters

ComparisonCalls == {[field |-> "a", op |-> op, val |-> v] : op \in AllKeys, v \in OperandValues}

(***************************************************************************)
(* The specification of the predicate compiler: one call of                *)
(* WhereBuilder.build or of SQLComparisonBuilder.build.                    *)
(***************************************************************************)
InitWhere ==
    /\ pc = "start"
    /\ \/ filter \in Filters /\ cmp = NoCall
       \/ filter = NoCall /\ cmp \in ComparisonCalls
    /\ where = NoResult
    /\ cmpOut = NoResult
    /\ relCall = NoCall /\ relOut = NoResult
    /\ aggCall = NoCall /\ aggSelects = NoResult /\ aggRows = NoCall /\ aggOut = NoResult
    /\ linkCall = NoCall /\ linkOut = NoResult
    /\ rqbCall = NoCall /\ rqb = NoCall /\ rqbOut = NoResult
    /\ fqbCall = NoCall /\ fqbOut = NoResult /\ aggregateQb = NoCall
    /\ batchCall = NoCall /\ executions = NoCall /\ resultsMap = NoCall /\ batchOut = NoResult
    /\ memCall = NoCall /\ heap = NoCall /\ roots = NoCall /\ memOut = NoCall
    /\ service = NoCall /\ serviceCall = NoCall /\ manager = NoCall

WhereBuild ==
    /\ pc = "start"
    /\ filter # NoCall
    /\ where' = WhereBuilderBuild(filter)
    /\ pc' = "done"
    /\ UNCHANGED <<filter, cmp, cmpOut, relVars, aggVars, linkVars, rqbVars, fqbVars, batchVars,
                   memVars, svcVars>>

ComparisonBuild ==
    /\ pc = "start"
    /\ cmp # NoCall
    /\ cmpOut' = SQLComparisonBuilderBuild(cmp.field, cmp.op, cmp.val)
    /\ pc' = "done"
    /\ UNCHANGED <<filter, where, cmp, relVars, aggVars, linkVars, rqbVars, fqbVars, batchVars,
                   memVars, svcVars>>

NextWhere == WhereBuild \/ ComparisonBuild

SpecWhere == InitWhere /\ [][NextWhere]_vars

(***************************************************************************)
(* Claims about the predicate compiler.                                    *)
(***************************************************************************)
LogicalKeys == {"and", "or"}

\* the filters listed under f.and and f.or
Children(f) ==
    UNION {IF Get(f, key).t = "array"
           THEN {Get(f, key).v[i] : i \in 1..Len(Get(f, key).v)} ELSE {} : key \in LogicalKeys}

\* some field entry of f, at any depth under and/or, has a value with the key k
RECURSIVE CarriesKey(_, _)
CarriesKey(f, k) ==
    \/ \E i \in 1..Len(f.v) :
          f.v[i][1] \notin LogicalKeys /\ f.v[i][2].t = "object" /\ HasProp(f.v[i][2], k)
    \/ \E c \in Children(f) : CarriesKey(c, k)

\* the call threw the unknown-operator error, with the operator's text in the message
UnknownOperatorError(result, op) ==
    ~result.ok /\ result.val.msg = "Unknown operator " /\ result.val.arg.x = op

\* C1: a filter with a field entry, at any depth under and/or, that carries an
\* operator key outside the sixteen operators does not compile: build throws the
\* unknown-operator error naming the key; so does SQLComparisonBuilder.build.
C1_UnknownOperatorFails ==
    pc = "done" =>
        /\ filter # NoCall =>
              \A k \in UnknownKeys : CarriesKey(filter, k) => UnknownOperatorError(where, k)
        /\ (cmp # NoCall /\ cmp.op \in UnknownKeys) => UnknownOperatorError(cmpOut, cmp.op)

MembershipKey(op) == IF op = "in" THEN "$in" ELSE "$nin"

\* the in/notIn contract: a membership fragment for a non-empty array, a throw otherwise
MembershipContract(result, field, op, v) ==
    IF v.t = "array" /\ Len(v.v) > 0
    THEN result = Return(Filter1(field, Cmp1(MembershipKey(op), v)))
    ELSE ~result.ok

\* C2: on both compile paths in and notIn throw for the empty array and for an
\* operand that is no array, and give the membership fragment for a non-empty array.
C2_MembershipOperandChecked ==
    pc = "done" =>
        /\ \A op \in {"in", "notIn"} :
              (filter.t = "object" /\ Keys(filter) = <<"a">> /\ Keys(Get(filter, "a")) = <<op>>)
                 => MembershipContract(where, "a", op, Get(Get(filter, "a"), op))
        /\ (cmp # NoCall /\ cmp.op \in {"in", "notIn"})
                 => MembershipContract(cmpOut, cmp.field, cmp.op, cmp.val)

\* every entry of fragment is an entry of obj
Includes(obj, fragment) ==
    \A i \in 1..Len(fragment.v) :
        HasProp(obj, fragment.v[i][1]) /\ Get(obj, fragment.v[i][1]) = fragment.v[i][2]

\* f is { a: c } where c has two operator keys of the Filter type
IsTwoOperatorFilter(f) ==
    /\ f.t = "object" /\ Keys(f) = <<"a">>
    /\ Get(f, "a").t = "object" /\ Len(Get(f, "a").v) = 2
    /\ \A i \in 1..2 : Get(f, "a").v[i][1] \in OperatorKeys

\* C3: the predicate of a field with several operators holds the fragment of every
\* one of them: no operator's constraint is dropped or overwritten.
C3_EveryFragmentKept ==
    (pc = "done" /\ IsTwoOperatorFilter(filter)) =>
        /\ where.ok
        /\ \A i \in 1..2 :
              LET c == Get(filter, "a")
              IN Includes(Get(where.val, "a"), mapOperator(c.v[i][1], c.v[i][2]).val)

\* f is { key: [child] }
IsSingleChild(f, key) ==
    /\ f.t = "object" /\ Keys(f) = <<key>>
    /\ Get(f, key).t = "array" /\ Len(Get(f, key).v) = 1

OnlyChild(f) == f.v[1][2].v[1]

\* C4 as claimed: build({and: [f]}) and build({or: [f]}) equal build(f).
C4_SingleChildCollapses ==
    pc = "done" =>
        \A key \in LogicalKeys :
            IsSingleChild(filter, key) => where = WhereBuilderBuild(OnlyChild(filter))

\* C4 as amended: build({and: [f]}) is the one-element conjunction
\* { $and: [build(f)] } and build({or: [f]}) the one-element disjunction
\* { $or: [build(f)] }; both throw what build(f) throws.
C4_SingleChildKeptInGroup ==
    pc = "done" =>
        \A key \in LogicalKeys :
            IsSingleChild(filter, key) =>
                LET child == WhereBuilderBuild(OnlyChild(filter))
                    group == IF key = "and" THEN "$and" ELSE "$or"
                IN where = IF child.ok THEN Return(Filter1(group, Arr(<<child.val>>)))
                           ELSE child

C4_Witness ==
    /\ pc = "done" /\ IsSingleChild(filter, "and") /\ where.ok
    /\ OnlyChild(filter) = Filter1("a", Obj(<< <<"gt", Num(1)>>, <<"lt", Num(2)>> >>))

\* f without its and/or entries
FieldEntries(f) == Obj(SelectSeq(f.v, LAMBDA e : e[1] \notin LogicalKeys))

HasList(f, key) == Get(f, key).t = "array" /\ Len(Get(f, key).v) > 0

\* build of every filter listed under f[key]
ChildResults(f, key) ==
    IF HasList(f, key)
    THEN [i \in 1..Len(Get(f, key).v) |-> WhereBuilderBuild(Get(f, key).v[i])]
    ELSE <<>>

Values(results) == [i \in 1..Len(results) |-> results[i].val]

ExampleFilter ==
    Obj(Field("or", Arr(<<Filter1("a", Cmp1("eq", Num(1))), Filter1("a", Cmp1("eq", Num(2)))>>))
        \o Field("b", Cmp1("eq", Num(3))))

ExamplePredicate ==
    Filter1("$and",
            Arr(<<Filter1("$or", Arr(<<Filter1("a", Cmp1("$eq", Num(1))),
                                       Filter1("a", Cmp1("$eq", Num(2)))>>)),
                  Filter1("b", Cmp1("$eq", Num(3)))>>))

\* C5: at a filter node build puts the groups of the node under one implicit AND:
\* {} with no group, the group itself with one, and otherwise
\* $and of [ {$and: and-children}, {$or: or-children}, field entries ], each child
\* compiled by build; the node throws when a child or a field entry throws.
C5_GroupsUnderImplicitAnd ==
    (pc = "done" /\ filter # NoCall) =>
        LET ands == ChildResults(filter, "and")
            ors == ChildResults(filter, "or")
            fields == WhereBuilderBuild(FieldEntries(filter))
            allOk == /\ \A i \in 1..Len(ands) : ands[i].ok
                     /\ \A i \in 1..Len(ors) : ors[i].ok
                     /\ fields.ok
            groups == (IF HasList(filter, "and")
                       THEN <<Filter1("$and", Arr(Values(ands)))>> ELSE <<>>)
                      \o (IF HasList(filter, "or")
                          THEN <<Filter1("$or", Arr(Values(ors)))>> ELSE <<>>)
                      \o (IF fields.val # Obj(<<>>) THEN <<fields.val>> ELSE <<>>)
        IN /\ where.ok = allOk
           /\ allOk => where.val = CASE Len(groups) = 0 -> Obj(<<>>)
                                     [] Len(groups) = 1 -> groups[1]
                                     [] OTHER -> Filter1("$and", Arr(groups))
           /\ filter = ExampleFilter => where = Return(ExamplePredicate)

C5_Witness ==
    /\ pc = "done" /\ where.ok
    /\ HasList(filter, "and") /\ HasList(filter, "or") /\ HasProp(filter, "b")
    /\ Len(Get(where.val, "$and").v) = 3

MikroOrmOperators ==
    {"$eq", "$ne", "$gt", "$gte", "$lt", "$lte", "$like", "$ilike", "$not", "$in", "$nin", "$or"}

HasRecognizedKey(o) == \E i \in 1..Len(o.v) : ToLowerCase(o.v[i][1]) \in KNOWN_OPERATORS

\* f has field entries only, each with an object as its value
IsFieldsOnly(f) ==
    /\ f.t = "object" /\ Len(f.v) > 0
    /\ \A i \in 1..Len(f.v) : f.v[i][1] \notin LogicalKeys /\ f.v[i][2].t = "object"

\* what the entry field: value compiles to on its own: a nested relation filter is
\* build(value) under the field's name
EntryResult(field, value) ==
    IF HasRecognizedKey(value) THEN WhereBuilderBuild(Filter1(field, value))
    ELSE LET nested == WhereBuilderBuild(value)
         IN IF nested.ok THEN Return(Filter1(field, nested.val)) ELSE nested

\* C6: a field entry whose value is an object with no recognized operator key is a
\* nested relation filter: its value is compiled by build and put under the entry's
\* name; an entry whose value has a recognized operator key is compiled to operator
\* fragments, never as a nested filter.
C6_NestedRelationFilter ==
    (pc = "done" /\ IsFieldsOnly(filter)) =>
        /\ where.ok = \A i \in 1..Len(filter.v) : EntryResult(filter.v[i][1], filter.v[i][2]).ok
        /\ where.ok =>
              \A i \in 1..Len(filter.v) :
                  LET field == filter.v[i][1]
                      value == filter.v[i][2]
                      compiled == Get(where.val, field)
                  IN /\ compiled = Get(EntryResult(field, value).val, field)
                     /\ HasRecognizedKey(value) =>
                           /\ \A j \in 1..Len(compiled.v) : compiled.v[j][1] \in MikroOrmOperators
                           /\ Return(compiled) # WhereBuilderBuild(value)

C6_Witness ==
    /\ pc = "done" /\ where.ok
    /\ filter.t = "object" /\ Keys(filter) = <<"rel">>
    /\ HasList(Get(filter, "rel"), "or") /\ HasProp(Get(filter, "rel"), "rel")
    /\ HasProp(Get(where.val, "rel"), "$and")

(***************************************************************************)
(* Entity metadata, as MikroORM derives it from the entities of the test   *)
(* fixtures: the primary keys and the relation properties of an entity.    *)
(***************************************************************************)
None == "(none)"

Relation(name, kind, type, owner, mappedBy, inversedBy) ==
    [name |-> name, kind |-> kind, type |-> type, owner |-> owner,
     mappedBy |-> mappedBy, inversedBy |-> inversedBy]

Metadata(entityName) ==
    CASE entityName = "TestEntity" ->
            [primaryKeys |-> <<"testEntityPk">>,
             relations |-> <<
                Relation("testRelations", "1:m", "TestRelation", FALSE, "testEntity", None),
                Relation("manyTestRelations", "m:n", "TestRelation", TRUE, None,
                         "manyTestEntities"),
                Relation("manyToManyUniDirectional", "m:n", "TestRelation", TRUE, None, None),
                Relation("oneTestRelation", "1:1", "TestRelation", TRUE, None,
                         "oneTestEntity") >>]
      [] entityName = "TestRelation" ->
            [primaryKeys |-> <<"testRelationPk">>,
             relations |-> <<
                Relation("testEntity", "m:1", "TestEntity", TRUE, None, None),
                Relation("testEntityUniDirectional", "m:1", "TestEntity", TRUE, None, None),
                Relation("manyTestEntities", "m:n", "TestEntity", FALSE, "manyTestRelations",
                         None),
                Relation("oneTestEntity", "1:1", "TestEntity", FALSE, "oneTestRelation", None),
                Relation("relationsOfTestRelation", "1:m", "RelationOfTestRelationEntity", FALSE,
                         "testRelation", None),
                Relation("relationOfTestRelation", "m:1", "RelationOfTestRelationEntity", TRUE,
                         None, None) >>]
      [] OTHER ->
            [primaryKeys |-> <<"id">>,
             relations |-> << Relation("testRelation", "m:1", "TestRelation", TRUE, None, None) >>]

\* metadata.relations.find((r) => r.name === name): its index, 0 when there is none
FindRelation(entityName, name) ==
    LET relations == Metadata(entityName).relations
    IN IF \E i \in 1..Len(relations) : relations[i].name = name
       THEN CHOOSE i \in 1..Len(relations) :
                relations[i].name = name /\ \A j \in 1..(i - 1) : relations[j].name # name
       ELSE 0

(***************************************************************************)
(* FilterQueryBuilder.getReferencedRelationsRecursive                      *)
(***************************************************************************)
\* a mutant of merge: a key of the source replaces the object's value of that key
mergeShallow(object, source) == ObjectAssign(object, source)

\* lodash merge(object, source) of NestedRecords: the deep union, key by key
RECURSIVE mergeFrom(_, _, _)
mergeFrom(object, source, i) ==
    IF i > Len(source.v) THEN object
    ELSE LET key == source.v[i][1]
             srcValue == source.v[i][2]
             objValue == IF Get(object, key).t = "object" THEN Get(object, key) ELSE Obj(<<>>)
         IN mergeFrom(SetProp(object, key, mergeFrom(objValue, srcValue, 1)), source, i + 1)

merge(object, source) == mergeFrom(object, source, 1)

RECURSIVE ReduceReferencedFields(_, _, _, _)
RECURSIVE MergeSubFilters(_, _, _, _)

\* getReferencedRelationsRecursiveInternal(metadata, filter)
getReferencedRelationsRecursiveInternal(entityName, f) ==
    ReduceReferencedFields(entityName, f, Obj(<<>>), 1)

\* for (const subFilter of currFilterValue) prev = merge(prev, internal(metadata, subFilter))
MergeSubFilters(entityName, prev, subFilters, i) ==
    IF i > Length(subFilters) THEN prev
    ELSE MergeSubFilters(entityName,
                         merge(prev, getReferencedRelationsRecursiveInternal(
                                         entityName, Get(subFilters, ToString(i - 1)))),
                         subFilters, i + 1)

\* referencedFields.reduce(..., {}) from the i-th key of the filter on
ReduceReferencedFields(entityName, f, prev, i) ==
    IF i > Len(Keys(f)) THEN prev
    ELSE LET curr == Keys(f)[i]
             currFilterValue == Get(f, curr)
             merged == IF (curr = "and" \/ curr = "or") /\ Truthy(currFilterValue)
                       THEN MergeSubFilters(entityName, prev, currFilterValue, 1)
                       ELSE prev
             r == FindRelation(entityName, curr)
         IN IF r = 0 THEN ReduceReferencedFields(entityName, f, merged, i + 1)
            ELSE LET targetMeta == Metadata(entityName).relations[r].type
                     nestedRelations ==
                        IF Truthy(currFilterValue)
                        THEN getReferencedRelationsRecursiveInternal(targetMeta, currFilterValue)
                        ELSE Obj(<<>>)
                     known == IF HasProp(merged, curr) THEN Get(merged, curr) ELSE Obj(<<>>)
                 IN ReduceReferencedFields(entityName, f,
                                           SetProp(merged, curr, merge(known, nestedRelations)),
                                           i + 1)

\* getReferencedRelationsRecursive(metadata, filter), called with both arguments
getReferencedRelationsRecursive(entityName, f) ==
    ReduceReferencedFields(entityName, f, Obj(<<>>), 1)

(***************************************************************************)
(* The calls of the relation resolver.                                     *)
(***************************************************************************)
Eq(n) == Cmp1("eq", Num(n))

\* filters of a TestRelation
RelationFilters ==
    {Obj(<<>>),
     Filter1("relationName", Eq(1)),
     Filter1("relationOfTestRelation", Filter1("testRelationId", Eq(1))),
     Filter1("relationsOfTestRelation", Filter1("testRelation", Filter1("relationName", Eq(1)))),
     Obj(Field("or", Arr(<<Filter1("testEntity", Filter1("stringType", Eq(1))),
                           Filter1("relationName", Eq(2))>>))
         \o Field("testEntity", Filter1("oneTestRelation", Obj(<<>>))))}

\* the children of the and/or lists of a filter of a TestEntity
RelationChildFilters ==
    {Filter1("stringType", Eq(1)),
     Filter1("oneTestRelation", Filter1("relationName", Eq(1))),
     Filter1("oneTestRelation", Filter1("relationOfTestRelation", Filter1("testRelationId", Eq(1)))),
     Filter1("or", Arr(<<Filter1("oneTestRelation",
                                 Filter1("relationsOfTestRelation", Obj(<<>>)))>>))}

RelationChildLists(n) == UNION {[1..k -> RelationChildFilters] : k \in 0..n}

RelationLogicalEntries(key, n) ==
    {<<>>} \cup {Field(key, Arr(l)) : l \in RelationChildLists(n)}

\* the field entries of a filter of a TestEntity
RelationFieldEntries ==
    {<<>>, Field("stringType", Eq(1))}
    \cup {Field("oneTestRelation", g) : g \in RelationFilters}
    \cup {Field("testRelations", Filter1("relationName", Eq(2)))
              \o Field("oneTestRelation", Filter1("relationName", Eq(2)))}

\* filters of a TestEntity: the field entries before or after the and/or lists
EntityFilters ==
    UNION {{Obj(a \o o \o e), Obj(e \o a \o o)} :
           a \in RelationLogicalEntries("and", MaxRelList), o \in RelationLogicalEntries("or", 1),
           e \in RelationFieldEntries}

RelationCalls ==
    {[entityName |-> "TestEntity", filter |-> f] : f \in EntityFilters}
    \cup {[entityName |-> "TestRelation", filter |-> f] : f \in RelationFilters}

(***************************************************************************)
(* The specification of the relation resolver: one call of                 *)
(* getReferencedRelationsRecursive(metadata, filter).                      *)
(***************************************************************************)
InitRelations ==
    /\ pc = "start"
    /\ relCall \in RelationCalls
    /\ relOut = NoResult
    /\ filter = NoCall /\ where = NoResult /\ cmp = NoCall /\ cmpOut = NoResult
    /\ aggCall = NoCall /\ aggSelects = NoResult /\ aggRows = NoCall /\ aggOut = NoResult
    /\ linkCall = NoCall /\ linkOut = NoResult
    /\ rqbCall = NoCall /\ rqb = NoCall /\ rqbOut = NoResult
    /\ fqbCall = NoCall /\ fqbOut = NoResult /\ aggregateQb = NoCall
    /\ batchCall = NoCall /\ executions = NoCall /\ resultsMap = NoCall /\ batchOut = NoResult
    /\ memCall = NoCall /\ heap = NoCall /\ roots = NoCall /\ memOut = NoCall
    /\ service = NoCall /\ serviceCall = NoCall /\ manager = NoCall

ResolveRelations ==
    /\ pc = "start"
    /\ relCall # NoCall
    /\ relOut' = Return(getReferencedRelationsRecursive(relCall.entityName, relCall.filter))
    /\ pc' = "done"
    /\ UNCHANGED <<relCall, whereVars, aggVars, linkVars, rqbVars, fqbVars, batchVars, memVars,
                   svcVars>>

NextRelations == ResolveRelations

SpecRelations == InitRelations /\ [][NextRelations]_vars

(***************************************************************************)
(* Claims about the relation resolver.                                     *)
(***************************************************************************)
\* the relation of the entity named name, or None
RelationTarget(entityName, name) ==
    LET relations == Metadata(entityName).relations
    IN IF \E i \in 1..Len(relations) : relations[i].name = name
       THEN (CHOOSE rel \in {relations[i] : i \in 1..Len(relations)} : rel.name = name).type
       ELSE None

\* the relation paths a filter of the entity references: a relation named by a field
\* entry, reached through any and/or branches, and below it the paths its nested
\* filter references on the relation's target
RECURSIVE ReferencedPaths(_, _)
ReferencedPaths(entityName, f) ==
    IF f.t # "object" THEN {}
    ELSE UNION {
            LET key == f.v[i][1]
                value == f.v[i][2]
                target == RelationTarget(entityName, key)
            IN (IF key \in LogicalKeys /\ value.t = "array"
                THEN UNION {ReferencedPaths(entityName, value.v[j]) : j \in 1..Len(value.v)}
                ELSE {})
               \cup (IF target # None
                     THEN {<<key>>} \cup {<<key>> \o p : p \in ReferencedPaths(target, value)}
                     ELSE {})
            : i \in 1..Len(f.v)}

\* the paths of a NestedRecord
RECURSIVE PathsOf(_)
PathsOf(record) ==
    UNION {{<<record.v[i][1]>>} \cup {<<record.v[i][1]>> \o p : p \in PathsOf(record.v[i][2])}
           : i \in 1..Len(record.v)}

\* no key occurs twice in the record, at any depth
RECURSIVE UniqueKeys(_)
UniqueKeys(record) ==
    /\ \A i, j \in 1..Len(record.v) : record.v[i][1] = record.v[j][1] => i = j
    /\ \A i \in 1..Len(record.v) : UniqueKeys(record.v[i][2])

ExampleRelationFilter ==
    Obj(Field("and", Arr(<<Filter1("or", Arr(<<Filter1("oneTestRelation",
                                                    Filter1("relationName", Eq(1)))>>))>>))
        \o Field("oneTestRelation", Filter1("relationName", Eq(2))))

\* C7: getReferencedRelationsRecursive returns exactly the deep union of the relation
\* paths the filter references, through and/or branches and nested relation filters:
\* non-relation fields never appear, and a relation referenced through several
\* branches has one entry holding the union of the nested relations of all of them.
C7_ReferencedRelationsDeepUnion ==
    (pc = "done" /\ relCall # NoCall) =>
        /\ relOut.ok
        /\ PathsOf(relOut.val) = ReferencedPaths(relCall.entityName, relCall.filter)
        /\ UniqueKeys(relOut.val)
        /\ relCall.filter = ExampleRelationFilter
              => relOut.val = Filter1("oneTestRelation", Obj(<<>>))

\* a relation referenced directly and inside a list, with different nested relations
C7_Witness ==
    /\ pc = "done" /\ relCall # NoCall
    /\ HasList(relCall.filter, "and")
    /\ HasProp(relCall.filter, "oneTestRelation")
    /\ HasProp(Get(relCall.filter, "oneTestRelation"), "relationsOfTestRelation")
    /\ Keys(Get(relOut.val, "oneTestRelation"))
          = <<"relationsOfTestRelation", "relationOfTestRelation">>

(***************************************************************************)
(* AggregateBuilder.  Aliases and field names are strings, modelled by the *)
(* sequence of their characters.                                           *)
(***************************************************************************)
AVG == <<"A", "V", "G">>
SUM == <<"S", "U", "M">>
COUNT == <<"C", "O", "U", "N", "T">>
MAX == <<"M", "A", "X">>
MIN == <<"M", "I", "N">>
GROUP_BY == <<"G", "R", "O", "U", "P", "_", "B", "Y">>
Underscore == <<"_">>

\* the alternatives of /(AVG|SUM|COUNT|MAX|MIN|GROUP_BY)_(.*)/, in the pattern's order
AGG_REGEXP == <<AVG, SUM, COUNT, MAX, MIN, GROUP_BY>>

\* the characters `.` does not match
LineTerminators == {"\n", "\r"}

\* the text t occurs in s at position p
OccursAt(s, p, t) == p + Len(t) - 1 <= Len(s) /\ SubSeq(s, p, p + Len(t) - 1) = t

\* (.*): the longest prefix of s without a line terminator
DotStar(s) ==
    LET stops == {i \in 1..Len(s) : s[i] \in LineTerminators}
    IN IF stops = {} THEN s
       ELSE SubSeq(s, 1, (CHOOSE i \in stops : \A j \in stops : i <= j) - 1)

\* the match of the pattern that starts at position p with the i-th alternative
MatchAt(s, p, i) ==
    LET rest == SubSeq(s, p + Len(AGG_REGEXP[i]) + 1, Len(s))
    IN Arr(<<Str(AGG_REGEXP[i] \o Underscore \o DotStar(rest)),
             Str(AGG_REGEXP[i]), Str(DotStar(rest))>>)

\* a mutant of AGG_REGEXP.exec: the pattern anchored at the start of the string
RegExpExecAnchored(s) ==
    IF \E i \in 1..Len(AGG_REGEXP) : OccursAt(s, 1, AGG_REGEXP[i] \o Underscore)
    THEN MatchAt(s, 1, CHOOSE i \in 1..Len(AGG_REGEXP) : OccursAt(s, 1, AGG_REGEXP[i] \o Underscore))
    ELSE Null

\* a mutant of AGG_REGEXP.exec: the last match of the string instead of the first
RegExpExecLast(s) ==
    LET Starts(p) == {i \in 1..Len(AGG_REGEXP) : OccursAt(s, p, AGG_REGEXP[i] \o Underscore)}
        matches == {p \in 1..Len(s) : Starts(p) # {}}
    IN IF matches = {} THEN Null
       ELSE LET p == CHOOSE q \in matches : \A r \in matches : r <= q
            IN MatchAt(s, p, CHOOSE i \in Starts(p) : \A j \in Starts(p) : i <= j)

\* AGG_REGEXP.exec(s): the leftmost match, with the first alternative that matches there
RegExpExec(s) ==
    LET Starts(p) == {i \in 1..Len(AGG_REGEXP) : OccursAt(s, p, AGG_REGEXP[i] \o Underscore)}
        matches == {p \in 1..Len(s) : Starts(p) # {}}
    IN IF matches = {} THEN Null
       ELSE LET p == CHOOSE q \in matches : \A r \in matches : q <= r
            IN MatchAt(s, p, CHOOSE i \in Starts(p) : \A j \in Starts(p) : i <= j)

UpperCase == <<"A", "B", "C", "D", "E", "F", "G", "H", "I", "J", "K", "L", "M",
               "N", "O", "P", "Q", "R", "S", "T", "U", "V", "W", "X", "Y", "Z">>
LowerCase == <<"a", "b", "c", "d", "e", "f", "g", "h", "i", "j", "k", "l", "m",
               "n", "o", "p", "q", "r", "s", "t", "u", "v", "w", "x", "y", "z">>

\* the character c in lower case and in upper case
LowerOf(c) ==
    IF \E i \in 1..Len(UpperCase) : UpperCase[i] = c
    THEN LowerCase[CHOOSE i \in 1..Len(UpperCase) : UpperCase[i] = c]
    ELSE c
UpperOf(c) ==
    IF \E i \in 1..Len(LowerCase) : LowerCase[i] = c
    THEN UpperCase[CHOOSE i \in 1..Len(LowerCase) : LowerCase[i] = c]
    ELSE c

\* s.toLowerCase()
toLowerCase(s) == [i \in 1..Len(s) |-> LowerOf(s[i])]

\* camelCase(s) of a lower-case s: the words between the underscores, every word but
\* the first capitalised
RECURSIVE camelCaseFrom(_, _, _, _)
camelCaseFrom(s, i, words, start) ==
    IF i > Len(s) THEN <<>>
    ELSE IF s[i] = "_" THEN camelCaseFrom(s, i + 1, words, TRUE)
    ELSE <<IF start /\ words > 0 THEN UpperOf(s[i]) ELSE LowerOf(s[i])>>
         \o camelCaseFrom(s, i + 1, IF start THEN words + 1 ELSE words, FALSE)

camelCase(s) == camelCaseFrom(s, 1, 0, TRUE)

\* query[name] ?? []
FieldsOf(query, name) ==
    IF Get(query, name).t \in {"undefined", "null"} THEN <<>> ELSE Get(query, name).v

getAggregateAlias(func, field) == func \o Underscore \o field

getGroupByAlias(field) == GROUP_BY \o Underscore \o field

getAggregateGroupBySelects(query) ==
    [i \in 1..Len(FieldsOf(query, "groupBy")) |-> getGroupByAlias(FieldsOf(query, "groupBy")[i].v)]

\* the functions and the lists of the query they read, in the order of the selects
AggregateFuncs ==
    << <<COUNT, "count">>, <<SUM, "sum">>, <<AVG, "avg">>, <<MAX, "max">>, <<MIN, "min">> >>

RECURSIVE getAggregateFuncSelectsFrom(_, _)
getAggregateFuncSelectsFrom(query, i) ==
    IF i > Len(AggregateFuncs) THEN <<>>
    ELSE LET func == AggregateFuncs[i][1]
             fields == FieldsOf(query, AggregateFuncs[i][2])
         IN [j \in 1..Len(fields) |-> getAggregateAlias(func, fields[j].v)]
            \o getAggregateFuncSelectsFrom(query, i + 1)

getAggregateFuncSelects(query) == getAggregateFuncSelectsFrom(query, 1)

getAggregateSelects(query) == getAggregateGroupBySelects(query) \o getAggregateFuncSelects(query)

\* the reduce of one row, from its i-th key on
RECURSIVE ConvertRowFrom(_, _, _)
ConvertRowFrom(response, agg, i) ==
    IF i > Len(Keys(response)) THEN Return(agg)
    ELSE LET resultField == Keys(response)[i]
             matchResult == RegExpExec(resultField)
         IN IF ~Truthy(matchResult)
            THEN Throw("Unknown aggregate column encountered.", Interpolate(Undefined))
            ELSE LET matchedFunc == matchResult.v[2].v
                     matchedFieldName == matchResult.v[3].v
                     aggFunc == camelCase(toLowerCase(matchedFunc))
                     aggResult == IF Truthy(Get(agg, aggFunc)) THEN Get(agg, aggFunc)
                                  ELSE Obj(<<>>)
                 IN ConvertRowFrom(response,
                                   SetProp(agg, aggFunc,
                                           SetProp(aggResult, matchedFieldName,
                                                   Get(response, resultField))),
                                   i + 1)

\* rawAggregates.map(...), from the i-th row on: the first row that throws ends the call
RECURSIVE ConvertRowsFrom(_, _, _)
ConvertRowsFrom(rawAggregates, out, i) ==
    IF i > Length(rawAggregates) THEN Return(Arr(out))
    ELSE LET row == ConvertRowFrom(rawAggregates.v[i], Obj(<<>>), 1)
         IN IF row.ok THEN ConvertRowsFrom(rawAggregates, Append(out, row.val), i + 1)
            ELSE row

convertToAggregateResponse(rawAggregates) == ConvertRowsFrom(rawAggregates, <<>>, 1)

\* getColumnName(metadata, propertyName): the first field name of the property
getColumnName(metadata, propertyName) ==
    LET prop == Get(Get(metadata, "properties"), propertyName)
    IN IF Truthy(prop) /\ Truthy(Get(prop, "fieldNames")) /\ Length(Get(prop, "fieldNames")) > 0
       THEN Get(Get(prop, "fieldNames"), "0").v
       ELSE propertyName

\* the column of a select: `alias`.`columnName`, or `columnName` without an alias
Column(field, alias, metadata) ==
    [qualifier |-> IF Truthy(alias) THEN alias ELSE Undefined,
     column |-> IF Truthy(metadata) THEN getColumnName(metadata, field) ELSE field]

\* the pairs [selectExpr, selectAlias] of the function func
createAggSelect(func, fields, alias, metadata) ==
    IF ~Truthy(fields) THEN <<>>
    ELSE [i \in 1..Length(fields) |->
            <<[func |-> Str(func), col |-> Column(fields.v[i].v, alias, metadata)],
              getAggregateAlias(func, fields.v[i].v)>>]

createGroupBySelect(fields, alias, metadata) ==
    IF ~Truthy(fields) THEN <<>>
    ELSE [i \in 1..Length(fields) |->
            <<[func |-> Undefined, col |-> Column(fields.v[i].v, alias, metadata)],
              getGroupByAlias(fields.v[i].v)>>]

\* build(qb, aggregate, alias): the selects `selectExpr as "selectAlias"` added to qb
AggregateBuilderBuild(metadata, aggregate, alias) ==
    LET selects == createGroupBySelect(Get(aggregate, "groupBy"), alias, metadata)
                   \o createAggSelect(COUNT, Get(aggregate, "count"), alias, metadata)
                   \o createAggSelect(SUM, Get(aggregate, "sum"), alias, metadata)
                   \o createAggSelect(AVG, Get(aggregate, "avg"), alias, metadata)
                   \o createAggSelect(MAX, Get(aggregate, "max"), alias, metadata)
                   \o createAggSelect(MIN, Get(aggregate, "min"), alias, metadata)
    IN IF Len(selects) = 0
       THEN Throw("No aggregate fields found.", Interpolate(Undefined))
       ELSE Return([i \in 1..Len(selects) |-> [expr |-> selects[i][1], as |-> selects[i][2]]])

(***************************************************************************)
(* The calls of the aggregate codec.                                       *)
(***************************************************************************)
\* field names: plain, with an underscore, and made of the tokens of the pattern
FieldNames ==
    {<<"x">>, <<"a", "_", "b">>, MIN \o Underscore \o MAX \o Underscore \o <<"x">>,
     AVG \o Underscore \o SUM \o Underscore \o COUNT \o Underscore \o GROUP_BY}

QueryLists == {"groupBy", "count", "sum", "avg", "max", "min"}

\* the selections of a query: fields, each in one of the lists of the query
Selections == UNION {[1..n -> QueryLists \X FieldNames] : n \in 0..MaxFields}

\* the fields the selection puts in the list named name, in their order
RECURSIVE SelectedIn(_, _)
SelectedIn(selection, name) ==
    IF selection = <<>> THEN <<>>
    ELSE (IF Head(selection)[1] = name THEN <<Str(Head(selection)[2])>> ELSE <<>>)
         \o SelectedIn(Tail(selection), name)

ListEntry(selection, name) ==
    IF SelectedIn(selection, name) = <<>> THEN <<>>
    ELSE Field(name, Arr(SelectedIn(selection, name)))

\* the AggregateQuery of a selection: the lists that are not empty
QueryOf(selection) ==
    Obj(ListEntry(selection, "groupBy") \o ListEntry(selection, "count")
        \o ListEntry(selection, "sum") \o ListEntry(selection, "avg")
        \o ListEntry(selection, "max") \o ListEntry(selection, "min"))

AggregateQueries ==
    {QueryOf(selection) : selection \in Selections} \cup {Filter1("count", Arr(<<>>))}

\* entity metadata whose property x is stored in the column x_col
ColumnMetadata ==
    Filter1("properties",
            Obj(<< <<<<"x">>, Filter1("fieldNames", Arr(<<Str(<<"x", "_", "c", "o", "l">>)>>))>> >>))

AggregateCalls ==
    {[aggregate |-> q, alias |-> a[1], metadata |-> a[2]] :
        q \in AggregateQueries,
        a \in {<<Undefined, Undefined>>, <<Str(<<"t">>), ColumnMetadata>>}}

\* keys of raw rows: aliases, and keys the pattern does and does not match
RowKeys ==
    {<<"x">>, SUM, SUM \o <<"x">>, <<"s", "u", "m", "_", "x">>, SUM \o Underscore \o <<"x">>,
     <<"x">> \o SUM \o Underscore \o <<"x">>, <<"G", "R", "O", "U", "P", "_", "x">>,
     GROUP_BY \o Underscore, MAX \o Underscore \o <<"a", "\n", "b">>}

RawRows ==
    {Obj(<<>>)} \cup {Obj(<< <<k, Num(1)>> >>) : k \in RowKeys}
    \cup {Obj(<< <<k[1], Num(1)>>, <<k[2], Num(2)>> >>) :
            k \in {kk \in RowKeys \X RowKeys : kk[1] # kk[2]}}

RawRowLists ==
    {Arr(<<>>)} \cup {Arr(<<r>>) : r \in RawRows}
    \cup {Arr(<<Obj(<< <<k[1], Num(1)>> >>), r>>) : k \in RowKeys \X {0}, r \in RawRows}
    \cup {Arr(<<r, Obj(<< <<k[1], Num(1)>> >>)>>) : k \in RowKeys \X {0}, r \in RawRows}

(***************************************************************************)
(* The specification of the aggregate codec: a query is built, executed    *)
(* and its raw rows converted; or raw rows are handed to                   *)
(* convertToAggregateResponse directly.                                    *)
(***************************************************************************)
InitAggregate ==
    /\ \/ pc = "start" /\ aggCall \in AggregateCalls /\ aggRows = NoCall
       \/ pc = "rows" /\ aggCall = NoCall /\ aggRows \in RawRowLists
    /\ aggSelects = NoResult
    /\ aggOut = NoResult
    /\ filter = NoCall /\ where = NoResult /\ cmp = NoCall /\ cmpOut = NoResult
    /\ relCall = NoCall /\ relOut = NoResult
    /\ linkCall = NoCall /\ linkOut = NoResult
    /\ rqbCall = NoCall /\ rqb = NoCall /\ rqbOut = NoResult
    /\ fqbCall = NoCall /\ fqbOut = NoResult /\ aggregateQb = NoCall
    /\ batchCall = NoCall /\ executions = NoCall /\ resultsMap = NoCall /\ batchOut = NoResult
    /\ memCall = NoCall /\ heap = NoCall /\ roots = NoCall /\ memOut = NoCall
    /\ service = NoCall /\ serviceCall = NoCall /\ manager = NoCall

\* aggregateBuilder.build(qb, aggregate, alias)
AggregateBuild ==
    /\ pc = "start"
    /\ aggCall # NoCall
    /\ aggSelects' = AggregateBuilderBuild(aggCall.metadata, aggCall.aggregate, aggCall.alias)
    /\ pc' = IF aggSelects'.ok THEN "built" ELSE "done"
    /\ UNCHANGED <<aggCall, aggRows, aggOut, whereVars, relVars, linkVars, rqbVars, fqbVars, batchVars,
                   memVars, svcVars>>

\* the row of the selects: one column per alias, holding its own value
RECURSIVE RowOf(_, _, _)
RowOf(selects, first, i) ==
    IF i = 0 THEN Obj(<<>>)
    ELSE SetProp(RowOf(selects, first, i - 1), selects[i].as, Num(first + i))

\* qb.execute(): the database answers with rows keyed by the aliases of the selects
AggregateExecute ==
    /\ pc = "built"
    /\ aggCall # NoCall
    /\ \E n \in {1, 2} :
          aggRows' = Arr([r \in 1..n |->
                            RowOf(aggSelects.val, (r - 1) * Len(aggSelects.val),
                                  Len(aggSelects.val))])
    /\ pc' = "rows"
    /\ UNCHANGED <<aggCall, aggSelects, aggOut, whereVars, relVars, linkVars, rqbVars, fqbVars, batchVars,
                   memVars, svcVars>>

\* AggregateBuilder.convertToAggregateResponse(rawResults)
ConvertToAggregateResponse ==
    /\ pc = "rows"
    /\ aggOut' = convertToAggregateResponse(aggRows)
    /\ pc' = "done"
    /\ UNCHANGED <<aggCall, aggSelects, aggRows, whereVars, relVars, linkVars, rqbVars, fqbVars, batchVars,
                   memVars, svcVars>>

NextAggregate == AggregateBuild \/ AggregateExecute \/ ConvertToAggregateResponse

SpecAggregate == InitAggregate /\ [][NextAggregate]_vars

(***************************************************************************)
(* Claims about the aggregate codec.                                       *)
(***************************************************************************)
\* the (list, field) pairs an AggregateQuery selects
PairsOf(query) ==
    {pair \in QueryLists \X FieldNames :
        \E i \in 1..Len(FieldsOf(query, pair[1])) : FieldsOf(query, pair[1])[i].v = pair[2]}

\* the alias the encoder gives a pair
EncodedAlias(pair) ==
    CASE pair[1] = "groupBy" -> getGroupByAlias(pair[2])
      [] pair[1] = "count" -> getAggregateAlias(COUNT, pair[2])
      [] pair[1] = "sum" -> getAggregateAlias(SUM, pair[2])
      [] pair[1] = "avg" -> getAggregateAlias(AVG, pair[2])
      [] pair[1] = "max" -> getAggregateAlias(MAX, pair[2])
      [] OTHER -> getAggregateAlias(MIN, pair[2])

\* the bucket of the response that holds the fields of a list: lowerCamel(function)
BucketOf(name) ==
    CASE name = "groupBy" -> <<"g", "r", "o", "u", "p", "B", "y">>
      [] name = "count" -> <<"c", "o", "u", "n", "t">>
      [] name = "sum" -> <<"s", "u", "m">>
      [] name = "avg" -> <<"a", "v", "g">>
      [] name = "max" -> <<"m", "a", "x">>
      [] OTHER -> <<"m", "i", "n">>

\* the (bucket, field) entries of one decoded row
EntriesOf(response) ==
    UNION {{<<response.v[b][1], response.v[b][2].v[f][1]>> : f \in 1..Len(response.v[b][2].v)}
           : b \in 1..Len(response.v)}

\* a query was built, executed and its rows decoded
RoundTrip == pc = "done" /\ aggCall # NoCall /\ aggSelects.ok

\* C8: the aliases are a bijective encoding and decoding is the left inverse of
\* encoding.  For every AggregateQuery with a non-empty list, whatever tokens or
\* underscores its field names contain: the aliases of build are those of
\* getAggregateSelects, distinct (list, field) pairs have distinct aliases, and
\* convertToAggregateResponse of rows keyed by the aliases returns, for every pair,
\* the row's value under the bucket lowerCamel(function) and the original field
\* name, with no other entry.
C8_AliasRoundTrip ==
    RoundTrip =>
        LET query == aggCall.aggregate
            aliases == [i \in 1..Len(aggSelects.val) |-> aggSelects.val[i].as]
        IN /\ aliases = getAggregateSelects(query)
           /\ {aliases[i] : i \in 1..Len(aliases)} = {EncodedAlias(p) : p \in PairsOf(query)}
           /\ \A p, q \in PairsOf(query) : EncodedAlias(p) = EncodedAlias(q) => p = q
           /\ aggOut.ok
           /\ Length(aggOut.val) = Length(aggRows)
           /\ \A r \in 1..Length(aggRows) :
                /\ \A p \in PairsOf(query) :
                      /\ HasProp(aggRows.v[r], EncodedAlias(p))
                      /\ Get(Get(aggOut.val.v[r], BucketOf(p[1])), p[2])
                            = Get(aggRows.v[r], EncodedAlias(p))
                /\ EntriesOf(aggOut.val.v[r])
                      = {<<BucketOf(p[1]), p[2]>> : p \in PairsOf(query)}

\* two rows of a grouped query whose field names are made of the tokens of the pattern
C8_Witness ==
    /\ RoundTrip
    /\ aggOut.ok
    /\ Length(aggRows) = 2
    /\ PairsOf(aggCall.aggregate)
          = {<<"groupBy", MIN \o Underscore \o MAX \o Underscore \o <<"x">> >>,
             <<"sum", AVG \o Underscore \o SUM \o Underscore \o COUNT \o Underscore \o GROUP_BY>>}

\* the key contains one of the six tokens followed by an underscore
Parses(key) ==
    \E t \in {AVG, SUM, COUNT, MAX, MIN, GROUP_BY} :
        \E p \in 1..Len(key) : \E e \in p..Len(key) : SubSeq(key, p, e) = t \o Underscore

AllKeysParse(rows) ==
    \A r \in 1..Length(rows) :
        \A k \in 1..Len(Keys(rows.v[r])) : Parses(Keys(rows.v[r])[k])

\* C9: convertToAggregateResponse throws, and returns no response for any row, when
\* some key of some row cannot be parsed against (AVG|SUM|COUNT|MAX|MIN|GROUP_BY)_(.*);
\* it returns one response per row when every key of every row parses.
C9_DecodeFailsOnUnparsedKey ==
    (pc = "done" /\ aggRows # NoCall) =>
        IF AllKeysParse(aggRows)
        THEN aggOut.ok /\ Length(aggOut.val) = Length(aggRows)
        ELSE aggOut = Throw("Unknown aggregate column encountered.", Interpolate(Undefined))

\* two rows, the first of keys that parse, the second with a key that does not
C9_Witness ==
    /\ pc = "done" /\ aggRows # NoCall
    /\ Length(aggRows) = 2
    /\ Keys(aggRows.v[1]) # <<>>
    /\ AllKeysParse(Arr(<<aggRows.v[1]>>))
    /\ ~AllKeysParse(Arr(<<aggRows.v[2]>>))
    /\ ~aggOut.ok

(***************************************************************************)
(* RelationQueryBuilder.buildWhereCondition.  Property names are strings,  *)
(* modelled by the sequence of their characters.                           *)
(***************************************************************************)
\* s.endsWith(t)
EndsWith(s, t) == Len(s) >= Len(t) /\ SubSeq(s, Len(s) - Len(t) + 1, Len(s)) = t

\* s.includes(t)
StringIncludes(s, t) == t = <<>> \/ \E p \in 1..Len(s) : OccursAt(s, p, t)

\* s.replace(/id$/, '')
ReplaceIdSuffix(s) == IF EndsWith(s, <<"i", "d">>) THEN SubSeq(s, 1, Len(s) - 2) ELSE s

\* the key of the computed property [x]: the string x, or 'undefined'
PropertyKey(x) ==
    IF x.t = "string" THEN x.v ELSE <<"u", "n", "d", "e", "f", "i", "n", "e", "d">>

\* list?.[0]
First(list) == IF list.t = "array" /\ Len(list.v) > 0 THEN list.v[1] ELSE Undefined

\* the primary key of a loaded relation object, or the raw value of the property
LoadedRelationKey(entity, relationMeta, relationPrimaryKey) ==
    LET relationValue == Get(entity, relationMeta.name.v)
    IN IF TypeOf(relationValue) = "object" /\ relationValue.t # "null"
       THEN Get(relationValue, relationPrimaryKey)
       ELSE relationValue

\* entityKeys.find(...): the first key that ends with id and whose text before it
\* occurs in the relation's name, case-insensitively; Undefined when there is none
MatchingKey(entity, relationMeta) ==
    LET relationNameLower == toLowerCase(relationMeta.name.v)
        entityKeys == Keys(entity)
        Matches(key) ==
            /\ EndsWith(toLowerCase(key), <<"i", "d">>)
            /\ StringIncludes(relationNameLower, ReplaceIdSuffix(toLowerCase(key)))
        found == {i \in 1..Len(entityKeys) : Matches(entityKeys[i])}
    IN IF found = {} THEN Undefined
       ELSE Str(entityKeys[CHOOSE i \in found : \A j \in found : i <= j])

\* the fkValue of a many-to-one relation, lines 146-186
ManyToOneFk(entity, relationMeta, relationPrimaryKey) ==
    LET fkFieldName == First(relationMeta.fieldNames)
        fk1 == IF Truthy(fkFieldName) THEN Get(entity, fkFieldName.v) ELSE Undefined
        fk2 == IF fk1.t = "undefined"
               THEN Get(entity, relationMeta.name.v \o <<"I", "d">>)
               ELSE fk1
        matchingKey == MatchingKey(entity, relationMeta)
        fk3 == IF fk2.t = "undefined" /\ Truthy(matchingKey)
               THEN Get(entity, matchingKey.v)
               ELSE fk2
    IN IF fk3.t = "undefined"
       THEN LoadedRelationKey(entity, relationMeta, relationPrimaryKey)
       ELSE fk3

\* the fkValue of an owning one-to-one relation, lines 198-213
OneToOneFk(entity, relationMeta, relationPrimaryKey) ==
    LET fkFieldName == IF Truthy(First(relationMeta.joinColumns))
                       THEN First(relationMeta.joinColumns)
                       ELSE First(relationMeta.fieldNames)
        fkValue == IF Truthy(fkFieldName) THEN Get(entity, fkFieldName.v) ELSE Undefined
    IN IF fkValue.t = "undefined"
       THEN LoadedRelationKey(entity, relationMeta, relationPrimaryKey)
       ELSE fkValue

\* a mutant of ManyToManyKey: the field of the non-owning side on both sides
ManyToManyKeyMappedBy(relationMeta) == PropertyKey(relationMeta.mappedBy)

\* the field of a many-to-many condition, lines 237-241
ManyToManyKey(relationMeta) ==
    IF relationMeta.owner THEN PropertyKey(relationMeta.inversedBy)
    ELSE PropertyKey(relationMeta.mappedBy)

\* the object { [key]: value }
Condition(key, value) == Obj(<< <<key, value>> >>)

buildWhereCondition(entity, relationMeta, entityPrimaryKey, relationPrimaryKey) ==
    LET entityId == Get(entity, entityPrimaryKey)
    IN CASE relationMeta.kind = "m:1" ->
                Condition(relationPrimaryKey,
                          ManyToOneFk(entity, relationMeta, relationPrimaryKey))
         [] relationMeta.kind = "1:1" ->
                IF relationMeta.owner
                THEN LET fkValue == OneToOneFk(entity, relationMeta, relationPrimaryKey)
                     IN IF fkValue.t = "undefined" /\ Truthy(relationMeta.inversedBy)
                        THEN Condition(PropertyKey(relationMeta.inversedBy), entityId)
                        ELSE Condition(relationPrimaryKey, fkValue)
                ELSE Condition(PropertyKey(relationMeta.mappedBy), entityId)
         [] relationMeta.kind = "1:m" ->
                Condition(PropertyKey(relationMeta.mappedBy), entityId)
         [] relationMeta.kind = "m:n" -> Condition(ManyToManyKey(relationMeta), entityId)
         [] OTHER -> Condition(entityPrimaryKey, entityId)

(***************************************************************************)
(* The calls of the relation linker: a source entity with primary key id   *)
(* and the descriptor of its relation to an entity with primary key pk.    *)
(***************************************************************************)
EntityPk == <<"i", "d">>
RelationPk == <<"p", "k">>
Parent == <<"p", "a", "r", "e", "n", "t">>
ParentFk == <<"p", "a", "r", "e", "n", "t", "_", "i", "d">>
Parents == <<"p", "a", "r", "e", "n", "t", "s">>
Child == <<"c", "h", "i", "l", "d">>

RelationMeta(kind, owner, mappedBy, inversedBy, fieldNames, joinColumns) ==
    [name |-> Str(Parent), kind |-> kind, type |-> IF kind = "scalar" THEN "string" ELSE "Related",
     owner |-> owner, mappedBy |-> mappedBy, inversedBy |-> inversedBy,
     fieldNames |-> fieldNames, joinColumns |-> joinColumns]

FkColumns == {Undefined, Arr(<<Str(ParentFk)>>)}

RelationMetas ==
    {RelationMeta("m:1", TRUE, Undefined, Undefined, f, f) : f \in FkColumns}
    \cup {RelationMeta("1:1", TRUE, Undefined, i, f, j) :
            i \in {Undefined, Str(Child)}, f \in FkColumns, j \in FkColumns}
    \cup {RelationMeta("1:1", FALSE, Str(Child), Undefined, Undefined, Undefined),
          RelationMeta("1:m", FALSE, Str(Child), Undefined, Undefined, Undefined),
          RelationMeta("m:n", TRUE, Undefined, Str(Parents), Undefined, Undefined),
          RelationMeta("m:n", TRUE, Undefined, Undefined, Undefined, Undefined),
          RelationMeta("m:n", FALSE, Str(Parents), Undefined, Undefined, Undefined),
          RelationMeta("scalar", FALSE, Undefined, Undefined, Undefined, Undefined)}

\* the properties a source entity may have; every value is found in one place only
Properties ==
    {<<EntityPk, Num(7)>>,
     <<ParentFk, Num(1)>>, <<ParentFk, Null>>, <<ParentFk, Undefined>>,
     <<Parent \o <<"I", "d">>, Num(2)>>,
     <<<<"r", "e", "n", "t", "I", "d">>, Num(3)>>,
     <<<<"o", "t", "h", "e", "r", "I", "d">>, Num(4)>>,
     <<Parent, Condition(RelationPk, Num(5))>>, <<Parent, Obj(<<>>)>>, <<Parent, Num(6)>>}

Entities ==
    {Obj(e) : e \in {s \in UNION {[1..n -> Properties] : n \in 0..MaxProps} :
                        \A i, j \in DOMAIN s : s[i][1] = s[j][1] => i = j}}

LinkCalls ==
    {[entity |-> e, relationMeta |-> r, entityPrimaryKey |-> EntityPk,
      relationPrimaryKey |-> RelationPk] : e \in Entities, r \in RelationMetas}

(***************************************************************************)
(* The specification of the relation linker: one call of                   *)
(* buildWhereCondition(entity, relationMeta).                              *)
(***************************************************************************)
InitLink ==
    /\ pc = "start"
    /\ linkCall \in LinkCalls
    /\ linkOut = NoResult
    /\ filter = NoCall /\ where = NoResult /\ cmp = NoCall /\ cmpOut = NoResult
    /\ relCall = NoCall /\ relOut = NoResult
    /\ aggCall = NoCall /\ aggSelects = NoResult /\ aggRows = NoCall /\ aggOut = NoResult
    /\ rqbCall = NoCall /\ rqb = NoCall /\ rqbOut = NoResult
    /\ fqbCall = NoCall /\ fqbOut = NoResult /\ aggregateQb = NoCall
    /\ batchCall = NoCall /\ executions = NoCall /\ resultsMap = NoCall /\ batchOut = NoResult
    /\ memCall = NoCall /\ heap = NoCall /\ roots = NoCall /\ memOut = NoCall
    /\ service = NoCall /\ serviceCall = NoCall /\ manager = NoCall

BuildWhereCondition ==
    /\ pc = "start"
    /\ linkCall # NoCall
    /\ linkOut' = Return(buildWhereCondition(linkCall.entity, linkCall.relationMeta,
                                             linkCall.entityPrimaryKey,
                                             linkCall.relationPrimaryKey))
    /\ pc' = "done"
    /\ UNCHANGED <<linkCall, whereVars, relVars, aggVars, rqbVars, fqbVars, batchVars, memVars,
                   svcVars>>

NextLink == BuildWhereCondition

SpecLink == InitLink /\ [][NextLink]_vars

(***************************************************************************)
(* Claims about the relation linker.                                       *)
(***************************************************************************)
\* the values that can be read from the source: of its properties and of the
\* objects they hold
SourceValues(entity) ==
    {entity.v[i][2] : i \in 1..Len(entity.v)}
    \cup UNION {{entity.v[i][2].v[j][2] : j \in 1..Len(entity.v[i][2].v)} :
                i \in {k \in 1..Len(entity.v) : entity.v[k][2].t = "object"}}

\* the name of the inverse side a descriptor declares, 'undefined' when it declares none
FieldNamed(name) ==
    IF name = Undefined THEN <<"u", "n", "d", "e", "f", "i", "n", "e", "d">> ELSE name.v

Linked == pc = "done" /\ linkCall # NoCall

\* C10: the link condition is dispatched on the kind and the owner flag of the
\* descriptor.  Many-to-one: relatedPK = the FK value read from the source.
\* One-to-many: mappedBy = sourcePK.  Owning one-to-one: relatedPK = the FK value,
\* or, when the FK is unresolved and the descriptor has an inverse, inversedBy =
\* sourcePK.  Non-owning one-to-one: mappedBy = sourcePK.  Owning many-to-many:
\* inversedBy = sourcePK (inversedBy 'parents' and sourcePK 7 give parents = 7).
\* Non-owning many-to-many: mappedBy = sourcePK.
C10_LinkConditionByKind ==
    Linked =>
        LET entity == linkCall.entity
            meta == linkCall.relationMeta
            relatedPK == linkCall.relationPrimaryKey
            sourcePK == Get(entity, linkCall.entityPrimaryKey)
            cond == linkOut.val
        IN /\ linkOut.ok
           /\ meta.kind = "m:1" =>
                /\ cond = Condition(relatedPK, ManyToOneFk(entity, meta, relatedPK))
                /\ cond.v[1][2] \in SourceValues(entity) \cup {Undefined}
           /\ meta.kind = "1:m" => cond = Condition(FieldNamed(meta.mappedBy), sourcePK)
           /\ (meta.kind = "1:1" /\ meta.owner) =>
                LET fk == OneToOneFk(entity, meta, relatedPK)
                IN IF fk # Undefined \/ meta.inversedBy = Undefined
                   THEN cond = Condition(relatedPK, fk)
                        /\ fk \in SourceValues(entity) \cup {Undefined}
                   ELSE cond = Condition(meta.inversedBy.v, sourcePK)
           /\ (meta.kind = "1:1" /\ ~meta.owner) =>
                cond = Condition(FieldNamed(meta.mappedBy), sourcePK)
           /\ (meta.kind = "m:n" /\ meta.owner) =>
                /\ cond = Condition(FieldNamed(meta.inversedBy), sourcePK)
                /\ (meta.inversedBy = Str(Parents) /\ sourcePK = Num(7))
                      => cond = Condition(Parents, Num(7))
           /\ (meta.kind = "m:n" /\ ~meta.owner) =>
                cond = Condition(FieldNamed(meta.mappedBy), sourcePK)

\* an owning many-to-many relation with inversedBy 'parents' on the source 7
C10_Witness ==
    /\ Linked
    /\ linkCall.relationMeta.kind = "m:n" /\ linkCall.relationMeta.owner
    /\ linkCall.relationMeta.inversedBy = Str(Parents)
    /\ Get(linkCall.entity, EntityPk) = Num(7)
    /\ linkOut.val = Condition(Parents, Num(7))

\* the sources of the FK value of a relation, in the order of their priority: the FK
\* field named by the metadata, the property <relationName>Id, the property found by
\* the heuristic match, the primary key of the loaded related object
FkSources(entity, meta, relatedPK) ==
    LET column == IF meta.kind = "1:1" /\ Truthy(First(meta.joinColumns))
                  THEN First(meta.joinColumns)
                  ELSE First(meta.fieldNames)
        matching == MatchingKey(entity, meta)
    IN << IF column = Undefined THEN Undefined ELSE Get(entity, column.v),
          Get(entity, meta.name.v \o <<"I", "d">>),
          IF matching = Undefined THEN Undefined ELSE Get(entity, matching.v),
          LoadedRelationKey(entity, meta, relatedPK) >>

\* the first source that is defined, Undefined when none is
RECURSIVE FirstDefined(_)
FirstDefined(sources) ==
    IF sources = <<>> THEN Undefined
    ELSE IF Head(sources) # Undefined THEN Head(sources)
    ELSE FirstDefined(Tail(sources))

\* the FK value the condition uses: the value compared with the related primary key
FkUsed(cond, relatedPK) == IF HasProp(cond, relatedPK) THEN Get(cond, relatedPK) ELSE Undefined

\* C11: for many-to-one and owning one-to-one relations the FK value of the link
\* condition is the first defined of the four sources, in their priority order: a
\* source is used iff every earlier source is undefined on the entity.
C11_FkPriorityOrder ==
    (Linked /\ (linkCall.relationMeta.kind = "m:1"
                \/ (linkCall.relationMeta.kind = "1:1" /\ linkCall.relationMeta.owner))) =>
        FkUsed(linkOut.val, linkCall.relationPrimaryKey)
            = FirstDefined(FkSources(linkCall.entity, linkCall.relationMeta,
                                     linkCall.relationPrimaryKey))

(***************************************************************************)
(* The MikroORM QueryBuilder, as far as the query assembler drives it: the *)
(* clauses the calls of the assembler leave on it.                         *)
(***************************************************************************)
\* em.createQueryBuilder(entityName, alias): a query without clauses
createQueryBuilder(entityName, alias) ==
    [entityName |-> entityName, alias |-> alias, where |-> <<>>, joins |-> <<>>,
     selects |-> <<>>, orderBy |-> Undefined, groupBy |-> <<>>,
     limit |-> Undefined, offset |-> Undefined]

\* qb.where(cond): the condition of the query
QbWhere(qb, cond) == [qb EXCEPT !.where = <<cond>>]

\* qb.andWhere(cond): one more conjunct of the condition
QbAndWhere(qb, cond) == [qb EXCEPT !.where = Append(@, cond)]

\* qb.leftJoin(field, alias)
QbLeftJoin(qb, field, alias) == [qb EXCEPT !.joins = Append(@, [field |-> field, alias |-> alias])]

\* qb.addSelect(raw(`${expr} as "${as}"`))
QbAddSelect(qb, select) == [qb EXCEPT !.selects = Append(@, select)]

\* qb.orderBy(orderBy)
QbOrderBy(qb, orderBy) == [qb EXCEPT !.orderBy = orderBy]

\* qb.groupBy(field): the grouping of the query; like where and orderBy, a call
\* replaces what an earlier call has set
QbGroupBy(qb, field) == [qb EXCEPT !.groupBy = <<field>>]

\* qb.limit(limit) and qb.offset(offset)
QbLimit(qb, limit) == [qb EXCEPT !.limit = limit]
QbOffset(qb, offset) == [qb EXCEPT !.offset = offset]

\* what follows a step that may have thrown
Then(result, Next(_)) == IF result.ok THEN Next(result.val) ELSE result

(***************************************************************************)
(* FilterQueryBuilder                                                      *)
(***************************************************************************)
\* the array index a property key denotes, -1 when it is not an array index
ArrayIndex(key) ==
    IF Len(key) = 1 /\ key[1] \in {"0", "1", "2", "3", "4", "5", "6", "7", "8", "9"}
    THEN CHOOSE n \in 0..9 : ToString(n) = key[1]
    ELSE -1

\* { ...acc, [key]: value }: a key the object has keeps its place; a new array index
\* goes before the string keys, in ascending order; a new string key goes last
Spread(acc, key, value) ==
    IF HasProp(acc, key) \/ ArrayIndex(key) < 0 THEN SetProp(acc, key, value)
    ELSE LET before == SelectSeq(acc.v, LAMBDA e : ArrayIndex(e[1]) >= 0
                                                    /\ ArrayIndex(e[1]) < ArrayIndex(key))
             after == SelectSeq(acc.v, LAMBDA e : ~(ArrayIndex(e[1]) >= 0
                                                     /\ ArrayIndex(e[1]) < ArrayIndex(key)))
         IN Obj(before \o << <<key, value>> >> \o after)

\* s.replace('_', ' '): the first underscore of s becomes a space
ReplaceUnderscore(s) ==
    IF \E i \in 1..Len(s) : s[i] = "_"
    THEN LET first == CHOOSE i \in 1..Len(s) : s[i] = "_" /\ \A j \in 1..(i - 1) : s[j] # "_"
         IN [i \in 1..Len(s) |-> IF i = first THEN " " ELSE s[i]]
    ELSE s

\* applyPaging(qb, paging)
\* a mutant of applyPaging: a limit or offset of 0 is taken as not given
applyPagingTruthy(qb, paging) ==
    IF ~Truthy(paging) THEN qb
    ELSE LET limited == IF Truthy(Get(paging, "limit"))
                        THEN QbLimit(qb, Get(paging, "limit"))
                        ELSE qb
         IN IF Truthy(Get(paging, "offset"))
            THEN QbOffset(limited, Get(paging, "offset"))
            ELSE limited

applyPaging(qb, paging) ==
    IF ~Truthy(paging) THEN qb
    ELSE LET limited == IF Get(paging, "limit") # Undefined
                        THEN QbLimit(qb, Get(paging, "limit"))
                        ELSE qb
         IN IF Get(paging, "offset") # Undefined
            THEN QbOffset(limited, Get(paging, "offset"))
            ELSE limited

\* applyAggregate(qb, aggregate, alias): the selects of aggregateBuilder.build
applyAggregate(qb, metadata, aggregate, alias) ==
    Then(AggregateBuilderBuild(metadata, aggregate, alias),
         LAMBDA selects :
            Return([qb EXCEPT !.selects = @ \o selects]))

\* applyFilter(qb, filter)
applyFilter(qb, f) ==
    IF ~Truthy(f) THEN Return(qb)
    ELSE Then(WhereBuilderBuild(f), LAMBDA mikroOrmFilter : Return(QbAndWhere(qb, mikroOrmFilter)))

\* the order of one sort field
OrderValue(sort) ==
    LET order == IF Get(sort, "direction") = Str(<<"A", "S", "C">>)
                 THEN <<"a", "s", "c">> ELSE <<"d", "e", "s", "c">>
    IN IF Truthy(Get(sort, "nulls"))
       THEN Str(order \o <<" ">> \o ReplaceUnderscore(toLowerCase(Get(sort, "nulls").v)))
       ELSE Str(order)

\* sorts.reduce((acc, { field, direction, nulls }) => ({ ...acc, [field]: orderValue }), {})
RECURSIVE SortsReduce(_, _, _)
SortsReduce(sorts, acc, i) ==
    IF i > Length(sorts) THEN acc
    ELSE SortsReduce(sorts,
                     Spread(acc, Get(sorts.v[i], "field").v, OrderValue(sorts.v[i])),
                     i + 1)

\* applySorting(qb, sorts)
applySorting(qb, sorts) ==
    IF ~Truthy(sorts) \/ Length(sorts) = 0 THEN qb
    ELSE QbOrderBy(qb, SortsReduce(sorts, Obj(<<>>), 1))

\* groupBy.forEach((field) => qb.groupBy(field))
RECURSIVE GroupByEach(_, _, _)
GroupByEach(qb, groupBy, i) ==
    IF i > Length(groupBy) THEN qb
    ELSE GroupByEach(QbGroupBy(qb, groupBy.v[i].v), groupBy, i + 1)

\* applyGroupBy(qb, groupBy)
applyGroupBy(qb, groupBy) ==
    IF ~Truthy(groupBy) \/ Length(groupBy) = 0 THEN qb
    ELSE GroupByEach(qb, groupBy, 1)

\* groupBy.reduce((acc, field) => ({ ...acc, [field]: 'asc' }), {})
RECURSIVE GroupByReduce(_, _, _)
GroupByReduce(groupBy, acc, i) ==
    IF i > Length(groupBy) THEN acc
    ELSE GroupByReduce(groupBy, Spread(acc, groupBy.v[i].v, Str(<<"a", "s", "c">>)), i + 1)

\* applyAggregateSorting(qb, groupBy)
applyAggregateSorting(qb, groupBy) ==
    IF ~Truthy(groupBy) \/ Length(groupBy) = 0 THEN qb
    ELSE QbOrderBy(qb, GroupByReduce(groupBy, Obj(<<>>), 1))

\* FilterQueryBuilder.select(query); the alias is the class name of the repository's entity
FilterQueryBuilderSelect(repo, query) ==
    Then(applyFilter(createQueryBuilder(repo.entityName, repo.className), query.filter),
         LAMBDA qb : Return(applyPaging(applySorting(qb, query.sorting), query.paging)))

\* a method at work on the QueryBuilder it made: what it returned or threw so far,
\* and the QueryBuilder as its steps have left it
Begin(qb) == [out |-> Return(qb), qb |-> qb]
Kept(qb, result) == [out |-> result, qb |-> IF result.ok THEN result.val ELSE qb]
Step(state, Apply(_)) == IF state.out.ok THEN Kept(state.qb, Apply(state.qb)) ELSE state

\* a mutant of AggregateSteps: the filter is applied before the aggregate
AggregateStepsFilterFirst(state, metadata, alias, query, aggregate) ==
    Step(Step(Step(state,
                   LAMBDA qb : applyFilter(qb, query.filter)),
              LAMBDA qb : applyAggregate(qb, metadata, aggregate, alias)),
         LAMBDA qb : Return(applyGroupBy(applyAggregateSorting(qb, Get(aggregate, "groupBy")),
                                         Get(aggregate, "groupBy"))))

\* applyAggregate, applyFilter, applyAggregateSorting and applyGroupBy, in the order
\* FilterQueryBuilder.aggregate and RelationQueryBuilder.aggregate call them
AggregateSteps(state, metadata, alias, query, aggregate) ==
    Step(Step(Step(state,
                   LAMBDA qb : applyAggregate(qb, metadata, aggregate, alias)),
              LAMBDA qb : applyFilter(qb, query.filter)),
         LAMBDA qb : Return(applyGroupBy(applyAggregateSorting(qb, Get(aggregate, "groupBy")),
                                         Get(aggregate, "groupBy"))))

\* FilterQueryBuilder.aggregate(query, aggregate)
FilterQueryBuilderAggregateRun(repo, query, aggregate) ==
    AggregateSteps(Begin(createQueryBuilder(repo.entityName, repo.className)),
                   repo.metadata, repo.className, query, aggregate)

FilterQueryBuilderAggregate(repo, query, aggregate) ==
    FilterQueryBuilderAggregateRun(repo, query, aggregate).out

(***************************************************************************)
(* RelationQueryBuilder                                                    *)
(***************************************************************************)
Related == <<"R", "e", "l", "a", "t", "e", "d">>

\* em.getMetadata().get(type): the metadata of the related entity and of the
\* embeddable Address; a type that is no entity has none
HasMetadata(type) == type \in {"Related", "Address"}
GetMetadata(type) ==
    IF type = "Related"
    THEN [className |-> Str(Related), primaryKeys |-> <<RelationPk>>, metadata |-> ColumnMetadata]
    ELSE [className |-> Str(<<"A", "d", "d", "r", "e", "s", "s">>), primaryKeys |-> <<>>,
          metadata |-> Undefined]

\* em.getRepository(type): the repository of an entity that has metadata
getRepository(type) ==
    IF HasMetadata(type)
    THEN Return([entityName |-> type, className |-> GetMetadata(type).className,
                 metadata |-> GetMetadata(type).metadata])
    ELSE Throw("Metadata for entity not found: ", Interpolate(type))

\* getRelationMeta(): the property of the entity named by the relation
getRelationMeta(entityMeta, relation) ==
    IF ~HasProp(entityMeta.properties, relation)
    THEN Throw("Unable to find relation '' on entity", Interpolate(Str(relation)))
    ELSE Return(Get(entityMeta.properties, relation))

\* new RelationQueryBuilder(repo, relation)
RelationQueryBuilderNew(entityMeta, relation) ==
    Then(getRelationMeta(entityMeta, relation),
         LAMBDA relationMeta :
            Then(getRepository(relationMeta.type),
                 LAMBDA relationRepo :
                    Return([relation |-> relation, filterQueryBuilder |-> relationRepo])))

\* primaryKeys[0]
PrimaryKey(primaryKeys) ==
    IF Len(primaryKeys) > 0 THEN primaryKeys[1] ELSE PropertyKey(Undefined)

\* the alias the query builder generates for its entity
AutoAlias == <<"t", "0">>
ParentAlias == <<"p", "a", "r", "e", "n", "t">>

\* this.buildWhereCondition(entity, relationMeta)
WhereCondition(entityMeta, entity, relationMeta) ==
    buildWhereCondition(entity, relationMeta, PrimaryKey(entityMeta.primaryKeys),
                        PrimaryKey(GetMetadata(relationMeta.type).primaryKeys))

\* the filter, paging and sorting of select, applied to a query that has its condition
SelectClauses(linked, query) ==
    Then(applyFilter(linked, query.filter),
         LAMBDA qb : Return(applySorting(applyPaging(qb, query.paging), query.sorting)))

\* select(entity, query)
RelationQueryBuilderSelect(entityMeta, relation, entity, query) ==
    Then(getRelationMeta(entityMeta, relation),
         LAMBDA relationMeta :
            LET entityPrimaryKey == PrimaryKey(entityMeta.primaryKeys)
                entityId == Get(entity, entityPrimaryKey)
                qb == createQueryBuilder(relationMeta.type, Undefined)
                fkFieldName == IF Truthy(First(relationMeta.joinColumns))
                               THEN First(relationMeta.joinColumns)
                               ELSE First(relationMeta.fieldNames)
                fkValue == IF Truthy(fkFieldName) THEN Get(entity, fkFieldName.v) ELSE Undefined
            IN IF /\ relationMeta.kind = "1:1" /\ relationMeta.owner
                  /\ Truthy(relationMeta.inversedBy)
                  /\ fkValue = Undefined
               THEN SelectClauses(
                        QbWhere(QbLeftJoin(qb, AutoAlias \o <<".">> \o relationMeta.inversedBy.v,
                                           ParentAlias),
                                Condition(ParentAlias \o <<".">> \o entityPrimaryKey, entityId)),
                        query)
               ELSE SelectClauses(QbWhere(qb, WhereCondition(entityMeta, entity, relationMeta)),
                                  query))

\* count(entity, query): the query that is counted
RelationQueryBuilderCount(entityMeta, relation, entity, query) ==
    Then(getRelationMeta(entityMeta, relation),
         LAMBDA relationMeta :
            applyFilter(QbWhere(createQueryBuilder(relationMeta.type, Undefined),
                                WhereCondition(entityMeta, entity, relationMeta)),
                        query.filter))

\* aggregate(entity, query, aggregateQuery): the query that is executed
RelationQueryBuilderAggregateRun(entityMeta, relation, entity, query, aggregateQuery) ==
    IF ~getRelationMeta(entityMeta, relation).ok
    THEN [out |-> getRelationMeta(entityMeta, relation), qb |-> NoCall]
    ELSE AggregateSteps(
             Begin(QbWhere(createQueryBuilder(getRelationMeta(entityMeta, relation).val.type,
                                              Undefined),
                           WhereCondition(entityMeta, entity,
                                          getRelationMeta(entityMeta, relation).val))),
             GetMetadata(getRelationMeta(entityMeta, relation).val.type).metadata,
             Undefined, query, aggregateQuery)

RelationQueryBuilderAggregate(entityMeta, relation, entity, query, aggregateQuery) ==
    RelationQueryBuilderAggregateRun(entityMeta, relation, entity, query, aggregateQuery).out

(***************************************************************************)
(* The calls of the relation query builder: a repository of the source     *)
(* entity, the name of a property, and the arguments of one method.        *)
(***************************************************************************)
Title == <<"t", "i", "t", "l", "e">>
Address == <<"a", "d", "d", "r", "e", "s", "s">>
BadRelation == <<"b", "a", "d">>

\* a scalar and an embedded property of the source entity
ScalarProperty ==
    [RelationMeta("scalar", FALSE, Undefined, Undefined, Undefined, Undefined)
        EXCEPT !.name = Str(Title)]
EmbeddedProperty ==
    [RelationMeta("embedded", FALSE, Undefined, Undefined, Undefined, Undefined)
        EXCEPT !.name = Str(Address), !.type = "Address"]

\* the metadata of the source entity: its relation parent, and two other properties
SourceMetadata(relationMeta) ==
    [primaryKeys |-> <<EntityPk>>,
     properties |-> Obj(<< <<Parent, relationMeta>>, <<Title, ScalarProperty>>,
                           <<Address, EmbeddedProperty>> >>)]

SourceMetadatas == {SourceMetadata(r) : r \in {m \in RelationMetas : m.kind # "scalar"}}

SourceEntities ==
    {Obj(<< <<EntityPk, Num(7)>> >>),
     Obj(<< <<EntityPk, Num(7)>>, <<ParentFk, Num(1)>> >>),
     Obj(<< <<EntityPk, Num(7)>>, <<Parent, Condition(RelationPk, Num(5))>> >>),
     Obj(<< <<Parent \o <<"I", "d">>, Num(2)>>, <<EntityPk, Num(7)>> >>)}

\* sort fields and paging
Sort(field, direction, nulls) ==
    Obj(<< <<"field", Str(field)>>, <<"direction", Str(direction)>>, <<"nulls", nulls>> >>)
Asc == <<"A", "S", "C">>
Desc == <<"D", "E", "S", "C">>

Query(f, sorting, paging) == [filter |-> f, sorting |-> sorting, paging |-> paging]

RelationQueries ==
    {Query(f, s, p) :
        f \in {Undefined, Filter1("a", Eq(1)), Filter1("a", Cmp1("in", Num(1))),
               Filter1("a", Obj(<< <<"eq", Num(1)>>, <<"bogus", Num(2)>> >>))},
        s \in {Undefined, Arr(<<Sort(<<"a">>, Asc, Undefined)>>)},
        p \in {Undefined, Obj(<< <<"limit", Num(2)>>, <<"offset", Num(1)>> >>)}}

RelationAggregates ==
    {Obj(<<>>), Filter1("count", Arr(<<Str(<<"x">>)>>)),
     Obj(Field("groupBy", Arr(<<Str(<<"x">>)>>)) \o Field("sum", Arr(<<Str(<<"a", "_", "b">>)>>)))}

RelationQueryCalls ==
    {[entityMeta |-> m, relation |-> r, entity |-> e, query |-> q, aggregate |-> a] :
        m \in SourceMetadatas, r \in {Parent, Title, Address, BadRelation},
        e \in SourceEntities, q \in RelationQueries, a \in RelationAggregates}

(***************************************************************************)
(* The specification of the relation query builder: it is constructed for  *)
(* a relation, and then one of select, count and aggregate is called.      *)
(***************************************************************************)
InitRelationQuery ==
    /\ pc = "start"
    /\ rqbCall \in RelationQueryCalls
    /\ rqb = NoCall
    /\ rqbOut = NoResult
    /\ filter = NoCall /\ where = NoResult /\ cmp = NoCall /\ cmpOut = NoResult
    /\ relCall = NoCall /\ relOut = NoResult
    /\ aggCall = NoCall /\ aggSelects = NoResult /\ aggRows = NoCall /\ aggOut = NoResult
    /\ linkCall = NoCall /\ linkOut = NoResult
    /\ fqbCall = NoCall /\ fqbOut = NoResult /\ aggregateQb = NoCall
    /\ batchCall = NoCall /\ executions = NoCall /\ resultsMap = NoCall /\ batchOut = NoResult
    /\ memCall = NoCall /\ heap = NoCall /\ roots = NoCall /\ memOut = NoCall
    /\ service = NoCall /\ serviceCall = NoCall /\ manager = NoCall

\* new RelationQueryBuilder(repo, relation)
RelationQueryConstruct ==
    /\ pc = "start"
    /\ rqbCall # NoCall
    /\ LET built == RelationQueryBuilderNew(rqbCall.entityMeta, rqbCall.relation)
       IN IF built.ok
          THEN rqb' = built.val /\ pc' = "built" /\ UNCHANGED rqbOut
          ELSE rqbOut' = built /\ pc' = "done" /\ UNCHANGED rqb
    /\ UNCHANGED <<rqbCall, whereVars, relVars, aggVars, linkVars, fqbVars, batchVars, memVars,
                   svcVars>>

RelationQuerySelect ==
    /\ pc = "built"
    /\ rqbCall # NoCall
    /\ rqbOut' = RelationQueryBuilderSelect(rqbCall.entityMeta, rqb.relation, rqbCall.entity,
                                            rqbCall.query)
    /\ pc' = "selected"
    /\ UNCHANGED <<rqbCall, rqb, whereVars, relVars, aggVars, linkVars, fqbVars, batchVars,
                   memVars, svcVars>>

RelationQueryCount ==
    /\ pc = "built"
    /\ rqbCall # NoCall
    /\ rqbOut' = RelationQueryBuilderCount(rqbCall.entityMeta, rqb.relation, rqbCall.entity,
                                           rqbCall.query)
    /\ pc' = "counted"
    /\ UNCHANGED <<rqbCall, rqb, whereVars, relVars, aggVars, linkVars, fqbVars, batchVars,
                   memVars, svcVars>>

RelationQueryAggregate ==
    /\ pc = "built"
    /\ rqbCall # NoCall
    /\ rqbOut' = RelationQueryBuilderAggregate(rqbCall.entityMeta, rqb.relation, rqbCall.entity,
                                               rqbCall.query, rqbCall.aggregate)
    /\ aggregateQb' = RelationQueryBuilderAggregateRun(rqbCall.entityMeta, rqb.relation,
                                                      rqbCall.entity, rqbCall.query,
                                                      rqbCall.aggregate).qb
    /\ pc' = "aggregated"
    /\ UNCHANGED <<rqbCall, rqb, fqbCall, fqbOut, whereVars, relVars, aggVars, linkVars,
                   batchVars, memVars, svcVars>>

NextRelationQuery ==
    RelationQueryConstruct \/ RelationQuerySelect \/ RelationQueryCount \/ RelationQueryAggregate

SpecRelationQuery == InitRelationQuery /\ [][NextRelationQuery]_vars

(***************************************************************************)
(* Claims about the relation query builder.                                *)
(***************************************************************************)
RelationKinds == {"m:1", "1:1", "1:m", "m:n"}

\* the name of the call is a relation of the source entity
NamesRelation(call) ==
    /\ HasProp(call.entityMeta.properties, call.relation)
    /\ Get(call.entityMeta.properties, call.relation).kind \in RelationKinds

\* C12: for every name that is not a relation of the source entity, creating a
\* RelationQueryBuilder fails with the relation-not-found error naming the relation:
\* no builder exists, so select, count and aggregate are never reached and no
\* condition or query is produced.
C12_UnknownRelationFails ==
    (rqbCall # NoCall /\ pc # "start" /\ ~NamesRelation(rqbCall)) =>
        /\ pc = "done"
        /\ rqb = NoCall
        /\ rqbOut = Throw("Unable to find relation '' on entity",
                          Interpolate(Str(rqbCall.relation)))

(***************************************************************************)
(* The calls of FilterQueryBuilder: the repository of an entity, a query   *)
(* and an aggregate query.                                                 *)
(***************************************************************************)
MaxSorts == 2

NullsFirst == Str(<<"N", "U", "L", "L", "S", "_", "F", "I", "R", "S", "T">>)
NullsLast == Str(<<"N", "U", "L", "L", "S", "_", "L", "A", "S", "T">>)

\* sort fields: the field names a and b and the integer-like name 1
SortFields ==
    {Sort(f, d, Undefined) : f \in {<<"a">>, <<"b">>, <<"1">>}, d \in {Asc, Desc}}
    \cup {Sort(<<"a">>, Asc, n) : n \in {NullsFirst, NullsLast}}

SortLists == {Arr(l) : l \in UNION {[1..n -> SortFields] : n \in 0..MaxSorts}}

Pagings ==
    {Undefined}
    \cup {Obj(l \o o) : l \in {<<>>, Field("limit", Num(0)), Field("limit", Num(2))},
                        o \in {<<>>, Field("offset", Num(0)), Field("offset", Num(3))}}

FilterQueries ==
    {Query(f, s, p) : f \in {Undefined, Filter1("a", Eq(1))},
                      s \in SortLists \cup {Undefined},
                      p \in {Undefined, Obj(Field("limit", Num(2)) \o Field("offset", Num(1)))}}
    \cup {Query(f, Undefined, p) :
            f \in {Undefined, Filter1("a", Eq(1)), Filter1("a", Cmp1("bogus", Num(1)))},
            p \in Pagings}

\* aggregate queries that group by one field and by two
GroupedAggregates ==
    {Obj(Field("groupBy", Arr([i \in 1..Len(g) |-> Str(g[i])]))
         \o Field("count", Arr(<<Str(<<"x">>)>>))) :
        g \in {<< <<"x">> >>, << <<"x">>, <<"y">> >>, << <<"y">>, <<"x">> >>}}

\* aggregate queries: no list, empty lists, every list alone, two lists
FilterAggregates ==
    {Obj(<<>>), Filter1("count", Arr(<<>>)),
     Obj(Field("groupBy", Arr(<<>>)) \o Field("count", Arr(<<>>)) \o Field("sum", Arr(<<>>))
         \o Field("avg", Arr(<<>>)) \o Field("max", Arr(<<>>)) \o Field("min", Arr(<<>>)))}
    \cup {Filter1(l, Arr(<<Str(<<"x">>)>>)) : l \in QueryLists}
    \cup RelationAggregates
    \cup GroupedAggregates

FilterQueryCalls ==
    {[repo |-> getRepository("Related").val, query |-> q, aggregate |-> a] :
        q \in FilterQueries, a \in {Filter1("count", Arr(<<Str(<<"x">>)>>))}}
    \cup {[repo |-> getRepository("Related").val, query |-> Query(f, Undefined, Undefined),
           aggregate |-> a] :
            f \in {Undefined, Filter1("a", Eq(1)), Filter1("a", Cmp1("bogus", Num(1)))},
            a \in FilterAggregates}
    \cup {[repo |-> getRepository("Related").val,
           query |-> Query(Undefined, Arr(<<Sort(<<"b">>, Desc, Undefined)>>),
                           Obj(Field("limit", Num(2)) \o Field("offset", Num(1)))),
           aggregate |-> a] : a \in GroupedAggregates}

(***************************************************************************)
(* The specification of FilterQueryBuilder: one call of select or of       *)
(* aggregate.                                                              *)
(***************************************************************************)
InitFilterQuery ==
    /\ pc = "start"
    /\ fqbCall \in FilterQueryCalls
    /\ fqbOut = NoResult
    /\ aggregateQb = NoCall
    /\ filter = NoCall /\ where = NoResult /\ cmp = NoCall /\ cmpOut = NoResult
    /\ relCall = NoCall /\ relOut = NoResult
    /\ aggCall = NoCall /\ aggSelects = NoResult /\ aggRows = NoCall /\ aggOut = NoResult
    /\ linkCall = NoCall /\ linkOut = NoResult
    /\ rqbCall = NoCall /\ rqb = NoCall /\ rqbOut = NoResult
    /\ batchCall = NoCall /\ executions = NoCall /\ resultsMap = NoCall /\ batchOut = NoResult
    /\ memCall = NoCall /\ heap = NoCall /\ roots = NoCall /\ memOut = NoCall
    /\ service = NoCall /\ serviceCall = NoCall /\ manager = NoCall

\* select(query)
FilterQuerySelect ==
    /\ pc = "start"
    /\ fqbCall # NoCall
    /\ fqbOut' = FilterQueryBuilderSelect(fqbCall.repo, fqbCall.query)
    /\ pc' = "selected"
    /\ UNCHANGED <<fqbCall, aggregateQb, whereVars, relVars, aggVars, linkVars, rqbVars,
                   batchVars, memVars, svcVars>>

\* aggregate(query, aggregate)
FilterQueryAggregate ==
    /\ pc = "start"
    /\ fqbCall # NoCall
    /\ fqbOut' = FilterQueryBuilderAggregate(fqbCall.repo, fqbCall.query, fqbCall.aggregate)
    /\ aggregateQb' = FilterQueryBuilderAggregateRun(fqbCall.repo, fqbCall.query,
                                                    fqbCall.aggregate).qb
    /\ pc' = "aggregated"
    /\ UNCHANGED <<fqbCall, whereVars, relVars, aggVars, linkVars, rqbVars, batchVars, memVars,
                   svcVars>>

NextFilterQuery == FilterQuerySelect \/ FilterQueryAggregate

SpecFilterQuery == InitFilterQuery /\ [][NextFilterQuery]_vars

(***************************************************************************)
(* The specification of aggregate assembly: a call of                      *)
(* AggregateBuilder.build, of FilterQueryBuilder or of                     *)
(* RelationQueryBuilder.                                                   *)
(***************************************************************************)
InitAssembly == InitAggregate \/ InitFilterQuery \/ InitRelationQuery

NextAssembly == NextAggregate \/ NextFilterQuery \/ NextRelationQuery

SpecAssembly == InitAssembly /\ [][NextAssembly]_vars

(***************************************************************************)
(* Batch relation loading of RelationQueryService: queryRelations,         *)
(* findRelation, countRelations and aggregateRelations called with an      *)
(* array of entities.  Every entity has its own execution, an async        *)
(* callback that builds its query, awaits the database and sets its result *)
(* in the Map; Promise.all joins the executions.                           *)
(***************************************************************************)
MaxBatch == 2

\* a Map of entities: its entries <<key, value>> in insertion order
NewMap == <<>>
MapHas(map, key) == \E i \in 1..Len(map) : map[i][1] = key
MapSet(map, key, value) ==
    IF MapHas(map, key)
    THEN [i \in 1..Len(map) |-> IF map[i][1] = key THEN <<key, value>> ELSE map[i]]
    ELSE Append(map, <<key, value>>)

\* getRelationEntity(relationName): the relation is looked up in metadata.relations
getRelationEntity(entityMeta, relationName) ==
    LET prop == Get(entityMeta.properties, relationName)
    IN IF HasProp(entityMeta.properties, relationName) /\ prop.kind \in RelationKinds
       THEN Return(prop.type)
       ELSE Throw("Unable to find relation  on ", Interpolate(Str(relationName)))

\* the entity whose execution the i-th callback of entities.map is
EntityOfLast(entities, i) == entities[Len(entities)]
EntityOf(entities, i) == entities[i]

\* the first n elements of a list
Take(list, n) == SubSeq(list, 1, IF n < Len(list) THEN n ELSE Len(list))

\* { filter }, and the query of batchFindRelations
FilterOnly(query) == Query(query.filter, Undefined, Undefined)
FindQuery(query) == Query(query.filter, Undefined, Obj(<< <<"limit", Num(1)>> >>))

\* the query an execution builds before its first await
BuildQuery(call, entity) ==
    CASE call.method = "queryRelations" ->
            RelationQueryBuilderSelect(call.entityMeta, call.relation, entity, call.query)
      [] call.method = "findRelation" ->
            RelationQueryBuilderSelect(call.entityMeta, call.relation, entity,
                                       FindQuery(call.query))
      [] call.method = "countRelations" ->
            RelationQueryBuilderCount(call.entityMeta, call.relation, entity,
                                      FilterOnly(call.query))
      [] OTHER ->
            RelationQueryBuilderAggregate(call.entityMeta, call.relation, entity,
                                          FilterOnly(call.query), call.aggregate)

\* what the database answers to the query of an entity: the related rows of
\* the entity, up to the limit of the query; their number; one row of aggregates
GetResultList(qb, rows) == IF qb.limit = Undefined THEN rows ELSE Take(rows, qb.limit.v)
GetCount(qb, rows) == Num(Len(rows))
Execute(qb, rows) == Arr(<<RowOf(qb.selects, Len(rows) - 1, Len(qb.selects))>>)

\* what the callback of an entity does with the answer: the value it has for the Map
ExecutionValue(call, qb, rows) ==
    CASE call.method \in {"queryRelations", "findRelation"} ->
            Return(Arr(GetResultList(qb, rows)))
      [] call.method = "countRelations" -> Return(GetCount(qb, rows))
      [] OTHER -> convertToAggregateResponse(Execute(qb, rows))

\* the callback sets its value in the Map; batchQueryRelations leaves empty lists out
SetResult(call, map, entity, value) ==
    IF call.method \in {"queryRelations", "findRelation"} /\ ~(Length(value) > 0)
    THEN map
    ELSE MapSet(map, entity, value)

\* Promise.all of the executions
PromiseAllSettled(execs) ==
    IF \E i \in 1..Len(execs) : execs[i].state = "pending" THEN "pending" ELSE "fulfilled"
PromiseAll(execs) ==
    CASE \E i \in 1..Len(execs) : execs[i].state = "rejected" -> "rejected"
      [] \E i \in 1..Len(execs) : execs[i].state = "pending" -> "pending"
      [] OTHER -> "fulfilled"

\* batchFindRelations: the first relation of every entry of the Map
RECURSIVE FirstRelations(_, _)
FirstRelations(map, i) ==
    IF i = 0 THEN NewMap
    ELSE LET first == Get(map[i][2], "0")
         IN IF Truthy(first) THEN MapSet(FirstRelations(map, i - 1), map[i][1], first)
            ELSE FirstRelations(map, i - 1)

\* what the batch method returns once Promise.all is fulfilled
BatchReturn(call, map) ==
    IF call.method = "findRelation" THEN Return(FirstRelations(map, Len(map))) ELSE Return(map)

(***************************************************************************)
(* The calls of batch relation loading: source entities that have a        *)
(* one-to-many relation, the list of entities of the call, and a database  *)
(* that has related rows for each entity or fails to answer.               *)
(***************************************************************************)
BatchEntity(n) == Obj(<< <<EntityPk, Num(n)>> >>)
BatchEntities == {BatchEntity(1), BatchEntity(2)}
BatchEntityLists == UNION {[1..n -> BatchEntities] : n \in 0..MaxBatch}

RelatedRow(k) == Condition(RelationPk, Num(k))
DbAnswers ==
    {[ok |-> TRUE, rows |-> rows] :
        rows \in {<<>>, <<RelatedRow(1)>>, <<RelatedRow(1), RelatedRow(2)>>}}
    \cup {[ok |-> FALSE, rows |-> <<>>]}
Databases == [BatchEntities -> DbAnswers]

BatchMetadata ==
    SourceMetadata(RelationMeta("1:m", FALSE, Str(Child), Undefined, Undefined, Undefined))

BatchArguments ==
    {[relation |-> Parent, query |-> Query(Undefined, Undefined, Undefined)],
     [relation |-> BadRelation, query |-> Query(Undefined, Undefined, Undefined)],
     [relation |-> Parent,
      query |-> Query(Filter1("a", Cmp1("between", Num(1))), Undefined, Undefined)]}

BatchCalls ==
    {[method |-> m, entityMeta |-> BatchMetadata, relation |-> a.relation,
      entities |-> es, query |-> a.query,
      aggregate |-> Filter1("count", Arr(<<Str(<<"x">>)>>)), db |-> db] :
        m \in {"queryRelations", "findRelation", "countRelations", "aggregateRelations"},
        a \in BatchArguments, es \in BatchEntityLists, db \in Databases}

\* the failure of the database
QueryFailed(entity) == Throw("query failed", Interpolate(entity))

(***************************************************************************)
(* The specification of batch relation loading.  The callbacks run up to   *)
(* their await when the method is called; afterwards the answers of the    *)
(* database arrive one at a time, in any order.                            *)
(***************************************************************************)
InitBatch ==
    /\ pc = "start"
    /\ batchCall \in BatchCalls
    /\ executions = NoCall
    /\ resultsMap = NoCall
    /\ batchOut = NoResult
    /\ filter = NoCall /\ where = NoResult /\ cmp = NoCall /\ cmpOut = NoResult
    /\ relCall = NoCall /\ relOut = NoResult
    /\ aggCall = NoCall /\ aggSelects = NoResult /\ aggRows = NoCall /\ aggOut = NoResult
    /\ linkCall = NoCall /\ linkOut = NoResult
    /\ rqbCall = NoCall /\ rqb = NoCall /\ rqbOut = NoResult
    /\ fqbCall = NoCall /\ fqbOut = NoResult /\ aggregateQb = NoCall
    /\ memCall = NoCall /\ heap = NoCall /\ roots = NoCall /\ memOut = NoCall
    /\ service = NoCall /\ serviceCall = NoCall /\ manager = NoCall

\* await Promise.all(...); return results: what the caller has once the executions are
\* `execs`, the last of them having failed with `error` if one failed
Await(call, execs, map, error) ==
    CASE PromiseAll(execs) = "fulfilled" -> [pc |-> "done", out |-> BatchReturn(call, map)]
      [] PromiseAll(execs) = "rejected" -> [pc |-> "done", out |-> error]
      [] OTHER -> [pc |-> "awaiting", out |-> NoResult]

\* getAssembler(RelationClass, this.getRelationEntity(relationName)) and
\* this.getRelationQueryBuilder(relationName)
MakeBuilder(call) ==
    Then(getRelationEntity(call.entityMeta, call.relation),
         LAMBDA type : RelationQueryBuilderNew(call.entityMeta, call.relation))

\* the promise of a callback that has run up to its await, and of one that has ended
Started(built) == [state |-> IF built.ok THEN "pending" ELSE "rejected", val |-> built]
Settled(value) == [state |-> IF value.ok THEN "fulfilled" ELSE "rejected", val |-> value]

\* entities.map(async (entity) => ...): every callback runs up to its await
StartAll(call) ==
    [i \in 1..Len(call.entities) |-> Started(BuildQuery(call, EntityOf(call.entities, i)))]

\* the rejection Promise.all sees first among callbacks that failed before their await
FirstRejected(execs) ==
    IF \A i \in 1..Len(execs) : execs[i].state # "rejected" THEN NoResult
    ELSE execs[CHOOSE i \in 1..Len(execs) :
                  /\ execs[i].state = "rejected"
                  /\ \A j \in 1..(i - 1) : execs[j].state # "rejected"].val

\* the batch method is called: it finds the relation, makes its builder and the
\* Map, and entities.map starts the callback of every entity
BatchDispatch ==
    /\ pc = "start"
    /\ batchCall # NoCall
    /\ IF MakeBuilder(batchCall).ok
       THEN /\ executions' = StartAll(batchCall)
            /\ resultsMap' = NewMap
            /\ pc' = Await(batchCall, executions', NewMap, FirstRejected(executions')).pc
            /\ batchOut' = Await(batchCall, executions', NewMap, FirstRejected(executions')).out
       ELSE /\ batchOut' = MakeBuilder(batchCall)
            /\ pc' = "done"
            /\ executions' = <<>>
            /\ UNCHANGED resultsMap
    /\ UNCHANGED <<batchCall, whereVars, relVars, aggVars, linkVars, rqbVars, fqbVars, memVars,
                   svcVars>>

\* the database answers the query of the i-th execution: its callback goes on,
\* converts the answer and sets it in the Map
BatchFulfil(i) ==
    /\ pc \in {"awaiting", "done"}
    /\ i \in 1..Len(executions)
    /\ executions[i].state = "pending"
    /\ batchCall.db[EntityOf(batchCall.entities, i)].ok
    /\ executions' =
          [executions EXCEPT ![i] =
              Settled(ExecutionValue(batchCall, @.val.val,
                                     batchCall.db[EntityOf(batchCall.entities, i)].rows))]
    /\ resultsMap' = IF executions'[i].val.ok
                     THEN SetResult(batchCall, resultsMap, EntityOf(batchCall.entities, i),
                                    executions'[i].val.val)
                     ELSE resultsMap
    /\ IF pc = "awaiting"
       THEN /\ pc' = Await(batchCall, executions', resultsMap', executions'[i].val).pc
            /\ batchOut' = Await(batchCall, executions', resultsMap', executions'[i].val).out
       ELSE UNCHANGED <<pc, batchOut>>
    /\ UNCHANGED <<batchCall, whereVars, relVars, aggVars, linkVars, rqbVars, fqbVars, memVars,
                   svcVars>>

\* the database fails to answer the query of the i-th execution
BatchReject(i) ==
    /\ pc \in {"awaiting", "done"}
    /\ i \in 1..Len(executions)
    /\ executions[i].state = "pending"
    /\ ~batchCall.db[EntityOf(batchCall.entities, i)].ok
    /\ executions' =
          [executions EXCEPT ![i] = Settled(QueryFailed(EntityOf(batchCall.entities, i)))]
    /\ IF pc = "awaiting"
       THEN /\ pc' = Await(batchCall, executions', resultsMap, executions'[i].val).pc
            /\ batchOut' = Await(batchCall, executions', resultsMap, executions'[i].val).out
       ELSE UNCHANGED <<pc, batchOut>>
    /\ UNCHANGED <<batchCall, resultsMap, whereVars, relVars, aggVars, linkVars, rqbVars,
                   fqbVars, memVars, svcVars>>

NextBatch ==
    \/ BatchDispatch
    \/ \E i \in 1..MaxBatch : BatchFulfil(i)
    \/ \E i \in 1..MaxBatch : BatchReject(i)

SpecBatch == InitBatch /\ [][NextBatch]_vars

(***************************************************************************)
(* Claims about batch relation loading.                                    *)
(***************************************************************************)
\* the batch method has made its Map and started the executions
Dispatched == batchCall # NoCall /\ pc # "start" /\ MakeBuilder(batchCall).ok
SomePending == \E i \in 1..Len(executions) : executions[i].state = "pending"
SomeRejected == \E i \in 1..Len(executions) : executions[i].state = "rejected"
AllFulfilled == \A i \in 1..Len(executions) : executions[i].state = "fulfilled"
MapHanded == pc = "done" /\ batchOut.ok
FailureHanded == pc = "done" /\ ~batchOut.ok

\* C13, as stated: the Map holds no entry while an execution is pending, the caller
\* is handed the Map only after every execution has completed, and if an execution
\* fails the caller receives the failure and no Map.
C13_MergedAfterAllComplete ==
    Dispatched =>
        /\ SomePending => resultsMap = NewMap
        /\ MapHanded => AllFulfilled
        /\ SomeRejected => FailureHanded

\* C13, amended: every entry of the Map is the result of an execution of its entity
\* that has completed, set while other executions may still be pending; the caller
\* has nothing while it awaits, is handed the Map only after every execution has
\* completed, and if an execution fails the caller receives the failure and no Map.
C13_MapHandedAfterAllComplete ==
    Dispatched =>
        /\ \A k \in 1..Len(resultsMap) :
              \E i \in 1..Len(executions) :
                 /\ batchCall.entities[i] = resultsMap[k][1]
                 /\ executions[i].state = "fulfilled"
        /\ pc = "awaiting" => batchOut = NoResult
        /\ MapHanded => AllFulfilled
        /\ SomeRejected => FailureHanded

\* two executions have completed, one after the other, and the caller has the Map
C13_Witness ==
    /\ Dispatched
    /\ MapHanded
    /\ Len(executions) = 2
    /\ Len(resultsMap) = 2

\* what the database holds for an entity, in the form the method returns it
OwnResult(call, entity) ==
    LET rows == call.db[entity].rows
    IN CASE call.method = "queryRelations" -> Arr(rows)
         [] call.method = "findRelation" -> rows[1]
         [] call.method = "countRelations" -> Num(Len(rows))
         [] OTHER -> Arr(<<Obj(<< <<<<"c", "o", "u", "n", "t">>,
                                   Obj(<< <<<<"x">>, Num(Len(rows))>> >>)>> >>)>>)

\* the entities the returned Map has an entry for
ExpectedKeys(call) ==
    {call.entities[i] : i \in 1..Len(call.entities)}
    \cap IF call.method \in {"queryRelations", "findRelation"}
         THEN {e \in BatchEntities : call.db[e].rows # <<>>}
         ELSE BatchEntities

\* C14: whatever the order in which the executions complete, the Map returned has
\* one entry for every input entity (countRelations, aggregateRelations) or for
\* every input entity that has a related row (queryRelations, findRelation), and
\* the value of an entity is the result of its own execution.
C14_MapContentsDeterministic ==
    (Dispatched /\ MapHanded) =>
        /\ \A j, k \in 1..Len(batchOut.val) : batchOut.val[j][1] = batchOut.val[k][1] => j = k
        /\ {batchOut.val[k][1] : k \in 1..Len(batchOut.val)} = ExpectedKeys(batchCall)
        /\ \A k \in 1..Len(batchOut.val) :
              batchOut.val[k][2] = OwnResult(batchCall, batchOut.val[k][1])

\* the execution of the second entity completed before that of the first, and the
\* two entities have different related rows
C14_Witness ==
    /\ Dispatched
    /\ MapHanded
    /\ Len(batchOut.val) = 2
    /\ batchOut.val[1][1] = batchCall.entities[2]
    /\ batchOut.val[1][2] # batchOut.val[2][2]

(***************************************************************************)
(* Claims about between and notBetween.  A compiled condition is read as   *)
(* MikroORM reads a FilterQuery: $and and $or hold lists of conditions,    *)
(* any other key of a condition is a field, and the object under a field   *)
(* holds comparison operators that are applied to the value of the field.  *)
(***************************************************************************)
ComparisonOperators == {"$eq", "$ne", "$gt", "$gte", "$lt", "$lte"}

Compares(op, x, y) ==
    CASE op = "$eq" -> x = y
      [] op = "$ne" -> x # y
      [] op = "$gt" -> x.v > y.v
      [] op = "$gte" -> x.v >= y.v
      [] op = "$lt" -> x.v < y.v
      [] OTHER -> x.v <= y.v

\* the operators under a field all compare the field
ComparesField(operators) ==
    /\ operators.t = "object"
    /\ \A i \in 1..Len(operators.v) : operators.v[i][1] \in ComparisonOperators

\* cond is a predicate on the field: every comparison in it compares that field
RECURSIVE IsPredicateOn(_, _)
IsPredicateOn(cond, field) ==
    /\ cond.t = "object"
    /\ \A i \in 1..Len(cond.v) :
          LET key == cond.v[i][1]
              val == cond.v[i][2]
          IN CASE key \in {"$and", "$or"} ->
                    val.t = "array" /\ \A j \in 1..Len(val.v) : IsPredicateOn(val.v[j], field)
               [] key = field -> ComparesField(val)
               [] OTHER -> FALSE

\* a row whose field has the value x satisfies the predicate cond
RECURSIVE Satisfies(_, _, _)
Satisfies(cond, field, x) ==
    \A i \in 1..Len(cond.v) :
        LET key == cond.v[i][1]
            val == cond.v[i][2]
        IN CASE key = "$and" -> \A j \in 1..Len(val.v) : Satisfies(val.v[j], field, x)
             [] key = "$or" -> \E j \in 1..Len(val.v) : Satisfies(val.v[j], field, x)
             [] OTHER -> \A j \in 1..Len(val.v) : Compares(val.v[j][1], x, val.v[j][2])

\* what between and notBetween of a range mean for a value
InRange(op, range, x) ==
    IF ToLowerCase(op) = "between"
    THEN x.v >= Get(range, "lower").v /\ x.v <= Get(range, "upper").v
    ELSE x.v < Get(range, "lower").v \/ x.v > Get(range, "upper").v

\* the compiled condition is a predicate on the field that holds of the values in
\* (between) or out of (notBetween) the range
CompilesRange(result, field, op, range) ==
    /\ result.ok
    /\ IsPredicateOn(result.val, field)
    /\ \A x \in Numbers : Satisfies(result.val, field, x) <=> InRange(op, range, x)

\* C15: on both compile paths, between of {lower: L, upper: U} compiles to a
\* predicate equivalent to field >= L AND field <= U and notBetween to one
\* equivalent to field < L OR field > U, the disjuncts comparing the field itself.
C15_BetweenCompilesToRange ==
    /\ (pc = "done" /\ filter # NoCall) =>
          \A op \in {"between", "notBetween"}, range \in Ranges :
             filter = Filter1("a", Cmp1(op, range)) => CompilesRange(where, "a", op, range)
    /\ (pc = "done" /\ cmp # NoCall /\ cmp.op \in {"between", "notBetween"}
          /\ cmp.val \in Ranges) =>
          CompilesRange(cmpOut, cmp.field, cmp.op, cmp.val)

\* the operand carries the keys lower and upper
CarriesRange(operand) ==
    /\ operand.t = "object"
    /\ \E i \in 1..Len(operand.v) : operand.v[i][1] = "lower"
    /\ \E i \in 1..Len(operand.v) : operand.v[i][1] = "upper"

\* the invalid-operand error of between and notBetween
InvalidRange(op, operand) ==
    Throw(IF ToLowerCase(op) = "between"
          THEN "Invalid value for between expected {lower: val, upper: val} got "
          ELSE "Invalid value for not between expected {lower: val, upper: val} got ",
          JSONStringify(operand))

\* a call of one of the builders with the operator op, and what it gave
Compiled(op) ==
    IF filter # NoCall
    THEN {[operand |-> v, out |-> where] :
             v \in {w \in OperandValues : filter = Filter1("a", Cmp1(op, w))}}
    ELSE {[operand |-> cmp.val, out |-> cmpOut] : o \in {op} \cap {cmp.op}}

\* C16: between and notBetween succeed for every operand that carries the keys
\* lower and upper, and for every other operand they fail with the error that names
\* the operator and the operand.
C16_BetweenOperandShape ==
    pc = "done" =>
        \A op \in {"between", "notBetween"} :
            \A c \in Compiled(op) :
                IF CarriesRange(c.operand) THEN c.out.ok
                ELSE c.out = InvalidRange(op, c.operand)

\* between of the array [1, 2] has failed
C16_Witness ==
    /\ pc = "done"
    /\ \E c \in Compiled("between") :
          c.operand = Arr(<<Num(1), Num(2)>>) /\ c.out = InvalidRange("between", c.operand)

\* the condition field = operand, or field # operand
FieldEquals(field, operator, operand) ==
    Obj(<< <<field, Obj(<< <<operator, operand>> >>)>> >>)

\* C17: is and isNot succeed exactly for the operands null, true and false, giving
\* field equals operand and field not equals operand; for every other operand they
\* fail with the error that names the operator and the operand.
C17_IsOperandTriState ==
    pc = "done" =>
        /\ \A c \in Compiled("is") :
              IF c.operand \in {Null, Bool(TRUE), Bool(FALSE)}
              THEN c.out = Return(FieldEquals("a", "$eq", c.operand))
              ELSE c.out = Throw("Unexpected is operator param ", JSONStringify(c.operand))
        /\ \A c \in Compiled("isNot") :
              IF c.operand \in {Null, Bool(TRUE), Bool(FALSE)}
              THEN c.out = Return(FieldEquals("a", "$ne", c.operand))
              ELSE c.out = Throw("Unexpected isNot operator param ",
                                 JSONStringify(c.operand))

\* is of the number 0 has failed
C17_Witness ==
    /\ pc = "done"
    /\ \E c \in Compiled("is") :
          c.operand = Num(0) /\ ~c.out.ok

(***************************************************************************)
(* Claims about aggregate assembly.                                        *)
(***************************************************************************)
\* one of the lists groupBy, count, sum, avg, max and min of the query is not empty
HasAggregateFields(aggregate) ==
    \E l \in QueryLists : Get(aggregate, l).t = "array" /\ Len(Get(aggregate, l).v) > 0

NoAggregateFields == Throw("No aggregate fields found.", Interpolate(Undefined))

\* a QueryBuilder that has no select, no sort and no group-by, and the conditions `conds`
Bare(qb, conds) ==
    /\ qb.selects = <<>>
    /\ qb.orderBy = Undefined
    /\ qb.groupBy = <<>>
    /\ qb.where = conds

ValidFilters == {Undefined, Filter1("a", Eq(1))}

\* C18: AggregateBuilder.build, FilterQueryBuilder.aggregate and
\* RelationQueryBuilder.aggregate fail with the no-aggregate-fields error exactly
\* when no list of the aggregate query is non-empty, and then the QueryBuilder has
\* no select, no filter, no sort and no group-by; otherwise they succeed.
C18_NoAggregateFields ==
    /\ (aggCall # NoCall /\ pc # "start") =>
          IF HasAggregateFields(aggCall.aggregate)
          THEN aggSelects.ok /\ aggSelects.val # <<>>
          ELSE aggSelects = NoAggregateFields
    /\ (fqbCall # NoCall /\ pc = "aggregated") =>
          IF HasAggregateFields(fqbCall.aggregate)
          THEN /\ fqbOut # NoAggregateFields
               /\ fqbCall.query.filter \in ValidFilters =>
                     fqbOut.ok /\ fqbOut.val.selects # <<>>
          ELSE fqbOut = NoAggregateFields /\ Bare(aggregateQb, <<>>)
    /\ (rqbCall # NoCall /\ pc = "aggregated") =>
          IF HasAggregateFields(rqbCall.aggregate)
          THEN /\ rqbOut # NoAggregateFields
               /\ rqbCall.query.filter \in ValidFilters =>
                     rqbOut.ok /\ rqbOut.val.selects # <<>>
          ELSE /\ rqbOut = NoAggregateFields
               /\ Bare(aggregateQb,
                       <<WhereCondition(rqbCall.entityMeta, rqbCall.entity,
                                        getRelationMeta(rqbCall.entityMeta,
                                                        rqb.relation).val)>>)

\* FilterQueryBuilder.aggregate of a query that has a filter and only an empty list
C18_Witness ==
    /\ fqbCall # NoCall
    /\ pc = "aggregated"
    /\ fqbCall.aggregate = Filter1("count", Arr(<<>>))
    /\ fqbCall.query.filter = Filter1("a", Eq(1))
    /\ fqbOut = NoAggregateFields

(***************************************************************************)
(* Claims about sorting and paging.                                        *)
(***************************************************************************)
\* the order of a sort field: its direction, and where its nulls go
ExpectedOrder(sort) ==
    (IF Get(sort, "direction") = Str(Asc) THEN <<"a", "s", "c">> ELSE <<"d", "e", "s", "c">>)
    \o (CASE Get(sort, "nulls") = NullsFirst ->
                <<" ", "n", "u", "l", "l", "s", " ", "f", "i", "r", "s", "t">>
          [] Get(sort, "nulls") = NullsLast ->
                <<" ", "n", "u", "l", "l", "s", " ", "l", "a", "s", "t">>
          [] OTHER -> <<>>)

\* the order-by lists the sort fields in their order, each with its own order
ListsInOrder(orderBy, sorts) ==
    /\ orderBy.t = "object"
    /\ Len(orderBy.v) = Len(sorts.v)
    /\ \A i \in 1..Len(sorts.v) :
          orderBy.v[i] = <<Get(sorts.v[i], "field").v, Str(ExpectedOrder(sorts.v[i]))>>

\* C19: the order-by of select lists the sort fields of the query in the order
\* given, each with its own direction and nulls placement, also when a field is
\* named more than once and whatever the form of the field names.
C19_SortingInGivenOrder ==
    (fqbCall # NoCall /\ pc = "selected" /\ fqbOut.ok
        /\ fqbCall.query.sorting # Undefined /\ Len(fqbCall.query.sorting.v) > 0) =>
        ListsInOrder(fqbOut.val.orderBy, fqbCall.query.sorting)

\* C20: select applies a limit exactly when paging.limit is given and an offset
\* exactly when paging.offset is given, each with the value given, 0 included.
C20_PagingIndependent ==
    (fqbCall # NoCall /\ pc = "selected" /\ fqbOut.ok) =>
        /\ fqbOut.val.limit = IF fqbCall.query.paging = Undefined THEN Undefined
                              ELSE Get(fqbCall.query.paging, "limit")
        /\ fqbOut.val.offset = IF fqbCall.query.paging = Undefined THEN Undefined
                               ELSE Get(fqbCall.query.paging, "offset")

\* a limit of 0 is given and no offset
C20_Witness ==
    /\ fqbCall # NoCall
    /\ pc = "selected"
    /\ fqbCall.query.paging = Obj(Field("limit", Num(0)))
    /\ fqbOut.ok
    /\ fqbOut.val.limit = Num(0)
    /\ fqbOut.val.offset = Undefined

(***************************************************************************)
(* Claims about grouping.                                                  *)
(***************************************************************************)
\* the names in a list of fields, in their order
NamesOf(fields) == [i \in 1..Len(fields.v) |-> fields.v[i].v]

\* an order-by that lists the fields in their order, each ascending
AscendingOver(fields) ==
    Obj([i \in 1..Len(fields.v) |-> <<fields.v[i].v, Str(<<"a", "s", "c">>)>>])

\* the aggregate query has a groupBy list with a field in it
Groups(aggregate) ==
    Get(aggregate, "groupBy").t = "array" /\ Len(Get(aggregate, "groupBy").v) > 0

\* C21: the QueryBuilder of FilterQueryBuilder.aggregate groups by exactly the
\* groupBy fields and is ordered ascending by exactly those fields in their
\* order; without groupBy fields it has no group-by and no order-by; it never has
\* the sorting or the paging of the query.
C21_GroupByAndImplicitSort ==
    (fqbCall # NoCall /\ pc = "aggregated" /\ fqbOut.ok) =>
        /\ fqbOut.val.limit = Undefined
        /\ fqbOut.val.offset = Undefined
        /\ IF Groups(fqbCall.aggregate)
           THEN /\ fqbOut.val.groupBy = NamesOf(Get(fqbCall.aggregate, "groupBy"))
                /\ fqbOut.val.orderBy = AscendingOver(Get(fqbCall.aggregate, "groupBy"))
           ELSE /\ fqbOut.val.groupBy = <<>>
                /\ fqbOut.val.orderBy = Undefined

(***************************************************************************)
(* Memory.  An object or array that has an identity is a cell of the heap; *)
(* the cell holds the entries or items of the object, those of them that   *)
(* are objects or arrays as references to their own cells.  A call is run  *)
(* on the heap: it allocates the objects it creates and writes to the      *)
(* objects its statements assign to.                                       *)
(***************************************************************************)
Ref(a) == [t |-> "ref", v |-> a]
IsRef(x) == x.t = "ref"

\* the object or array x refers to, with the references it holds; a primitive is itself
At(mem, x) == IF IsRef(x) THEN mem[x.v] ELSE x

\* a call at work: the memory as it has left it, and what it returned or threw
Mem(mem, out) == [heap |-> mem, out |-> out]
Bind(m, Rest(_, _)) == IF m.out.ok THEN Rest(m.heap, m.out.val) ELSE m

\* {} , [] and object literals: a new cell
New(mem, cell) == Mem(Append(mem, cell), Return(Ref(Len(mem) + 1)))

\* object[key] = value
WriteProp(mem, object, key, value) == [mem EXCEPT ![object.v] = SetProp(@, key, value)]

\* array.push(value)
Push(mem, array, value) == [mem EXCEPT ![array.v] = Arr(Append(@.v, value))]

\* Object.assign(target, source)
ObjectAssignAt(mem, target, source) ==
    [mem EXCEPT ![target.v] = ObjectAssign(@, mem[source.v])]

\* a value put in memory: a cell for each object and array of it; a reference it
\* holds is kept
RECURSIVE Store(_, _)
RECURSIVE StoreItems(_, _, _, _)
StoreItems(mem, x, stored, i) ==
    IF i > Len(x.v) THEN New(mem, [t |-> x.t, v |-> stored])
    ELSE Bind(Store(mem, IF x.t = "object" THEN x.v[i][2] ELSE x.v[i]),
              LAMBDA m, item :
                StoreItems(m, x,
                           Append(stored, IF x.t = "object" THEN <<x.v[i][1], item>> ELSE item),
                           i + 1))

Store(mem, x) ==
    IF x.t \in {"object", "array"} THEN StoreItems(mem, x, <<>>, 1) ELSE Mem(mem, Return(x))

\* the values put in memory one after the other, and the references to them
RECURSIVE StoreAll(_, _, _, _)
StoreAll(mem, values, refs, i) ==
    IF i > Len(values) THEN Mem(mem, Return(refs))
    ELSE Bind(Store(mem, values[i]),
              LAMBDA m, ref : StoreAll(m, values, Append(refs, ref), i + 1))

\* the value a reference stands for: the object with the objects it holds
RECURSIVE Deref(_, _)
Deref(mem, x) ==
    IF ~IsRef(x) THEN x
    ELSE IF mem[x.v].t = "object"
         THEN Obj([i \in 1..Len(mem[x.v].v) |->
                      <<mem[x.v].v[i][1], Deref(mem, mem[x.v].v[i][2])>>])
         ELSE Arr([i \in 1..Len(mem[x.v].v) |-> Deref(mem, mem[x.v].v[i])])

\* what a call returned, as a value
Seen(m) == IF m.out.ok THEN Return(Deref(m.heap, m.out.val)) ELSE m.out

(***************************************************************************)
(* WhereBuilder on a filter in memory.                                     *)
(***************************************************************************)
\* the object mapOperator returns: where it holds its operand, it holds the operand
\* itself and no copy of it
RECURSIVE Relink(_, _, _)
Relink(x, value, ref) ==
    IF x = value THEN ref
    ELSE IF x.t = "object"
         THEN Obj([i \in 1..Len(x.v) |-> <<x.v[i][1], Relink(x.v[i][2], value, ref)>>])
         ELSE IF x.t = "array" THEN Arr([i \in 1..Len(x.v) |-> Relink(x.v[i], value, ref)])
         ELSE x

\* this.mapOperator(operator, value): a new object, or a throw
MapOperatorAt(mem, operator, value) ==
    IF mapOperator(operator, Deref(mem, value)).ok
    THEN Store(mem, Relink(mapOperator(operator, Deref(mem, value)).val,
                           Deref(mem, value), value))
    ELSE Mem(mem, mapOperator(operator, Deref(mem, value)))

\* the loop of buildComparison: Object.assign(conditions, mikroOrmOp) for every operator
RECURSIVE buildComparisonFromAt(_, _, _, _)
buildComparisonFromAt(mem, comparison, conditions, i) ==
    IF i > Len(Keys(At(mem, comparison))) THEN Mem(mem, Return(conditions))
    ELSE Bind(MapOperatorAt(mem, Keys(At(mem, comparison))[i],
                            Get(At(mem, comparison), Keys(At(mem, comparison))[i])),
              LAMBDA m, mikroOrmOp :
                buildComparisonFromAt(ObjectAssignAt(m, conditions, mikroOrmOp),
                                      comparison, conditions, i + 1))

\* buildComparison(comparison): const conditions = {}
buildComparisonAt(mem, comparison) ==
    Bind(New(mem, Obj(<<>>)),
         LAMBDA m, conditions : buildComparisonFromAt(m, comparison, conditions, 1))

RECURSIVE WhereBuilderBuildAt(_, _)
RECURSIVE buildFieldComparisonsFromAt(_, _, _, _)
RECURSIVE MapBuildAt(_, _, _, _)

\* the forEach of buildFieldComparisons: result[field] = ... for every field
buildFieldComparisonsFromAt(mem, f, result, i) ==
    IF i > Len(Keys(At(mem, f))) THEN Mem(mem, Return(result))
    ELSE IF \/ Keys(At(mem, f))[i] \in {"and", "or"}
            \/ ~Truthy(At(mem, Get(At(mem, f), Keys(At(mem, f))[i])))
         THEN buildFieldComparisonsFromAt(mem, f, result, i + 1)
         ELSE Bind(IF /\ TypeOf(At(mem, Get(At(mem, f), Keys(At(mem, f))[i]))) = "object"
                      /\ ~isComparisonObject(At(mem, Get(At(mem, f), Keys(At(mem, f))[i])))
                   THEN WhereBuilderBuildAt(mem, Get(At(mem, f), Keys(At(mem, f))[i]))
                   ELSE buildComparisonAt(mem, Get(At(mem, f), Keys(At(mem, f))[i])),
                   LAMBDA m, built :
                     buildFieldComparisonsFromAt(
                         WriteProp(m, result, Keys(At(mem, f))[i], built), f, result, i + 1))

\* a mutant of buildFieldComparisonsAt: the comparisons are written into the filter
buildFieldComparisonsInPlace(mem, f) == buildFieldComparisonsFromAt(mem, f, f, 1)

\* buildFieldComparisons(filter): const result = {}
buildFieldComparisonsAt(mem, f) ==
    Bind(New(mem, Obj(<<>>)),
         LAMBDA m, result : buildFieldComparisonsFromAt(m, f, result, 1))

\* list.map((f) => this.build(f)): the new array of the conditions built
MapBuildAt(mem, list, built, i) ==
    IF i > Length(At(mem, list)) THEN New(mem, Arr(built))
    ELSE Bind(WhereBuilderBuildAt(mem, At(mem, list).v[i]),
              LAMBDA m, condition : MapBuildAt(m, list, Append(built, condition), i + 1))

\* if (list && list.length) conditions.push({ [op]: list.map(...) })
PushGroupAt(mem, conditions, list, op) ==
    IF ~(Truthy(At(mem, list)) /\ Length(At(mem, list)) # 0) THEN Mem(mem, Return(conditions))
    ELSE Bind(MapBuildAt(mem, list, <<>>, 1),
              LAMBDA m, children :
                Bind(New(m, Obj(<< <<op, children>> >>)),
                     LAMBDA n, group : Mem(Push(n, conditions, group), Return(conditions))))

\* if (Object.keys(fieldConditions).length > 0) conditions.push(fieldConditions)
PushFieldsAt(mem, conditions, fieldConditions) ==
    IF Len(Keys(At(mem, fieldConditions))) > 0
    THEN Mem(Push(mem, conditions, fieldConditions), Return(conditions))
    ELSE Mem(mem, Return(conditions))

\* the end of build: {}, the only condition, or { $and: conditions }
CombineConditionsAt(mem, conditions) ==
    IF Length(At(mem, conditions)) = 0 THEN New(mem, Obj(<<>>))
    ELSE IF Length(At(mem, conditions)) = 1 THEN Mem(mem, Return(At(mem, conditions).v[1]))
    ELSE New(mem, Obj(<< <<"$and", conditions>> >>))

\* WhereBuilder.build(filter): const conditions = []
WhereBuilderBuildAt(mem, f) ==
    Bind(New(mem, Arr(<<>>)),
         LAMBDA m0, conditions :
    Bind(PushGroupAt(m0, conditions, Get(At(m0, f), "and"), "$and"),
         LAMBDA m1, c1 :
    Bind(PushGroupAt(m1, conditions, Get(At(m1, f), "or"), "$or"),
         LAMBDA m2, c2 :
    Bind(buildFieldComparisonsAt(m2, f),
         LAMBDA m3, fieldConditions :
    Bind(PushFieldsAt(m3, conditions, fieldConditions),
         LAMBDA m4, c4 : CombineConditionsAt(m4, conditions))))))

(***************************************************************************)
(* getReferencedRelationsRecursive on a filter in memory.                  *)
(***************************************************************************)
\* lodash merge(object, source) of NestedRecords: the keys of the source are merged
\* into the object itself, which is returned; under a key the object has not, a new
\* object is set
RECURSIVE mergeFromAt(_, _, _, _)
mergeFromAt(mem, object, source, i) ==
    IF i > Len(At(mem, source).v) THEN Mem(mem, Return(object))
    ELSE LET key == At(mem, source).v[i][1]
             srcValue == At(mem, source).v[i][2]
         IN IF IsRef(Get(At(mem, object), key))
            THEN Bind(mergeFromAt(mem, Get(At(mem, object), key), srcValue, 1),
                      LAMBDA m, merged : mergeFromAt(m, object, source, i + 1))
            ELSE Bind(New(mem, Obj(<<>>)),
                      LAMBDA m, clone :
                        Bind(mergeFromAt(m, clone, srcValue, 1),
                             LAMBDA n, merged :
                               mergeFromAt(WriteProp(n, object, key, merged),
                                           object, source, i + 1)))

mergeAt(mem, object, source) == mergeFromAt(mem, object, source, 1)

RECURSIVE ReduceReferencedFieldsAt(_, _, _, _, _)
RECURSIVE MergeSubFiltersAt(_, _, _, _, _)

\* getReferencedRelationsRecursiveInternal(metadata, filter): reduce(..., {})
getReferencedRelationsRecursiveInternalAt(mem, entityName, f) ==
    Bind(New(mem, Obj(<<>>)),
         LAMBDA m, prev : ReduceReferencedFieldsAt(m, entityName, f, prev, 1))

\* for (const subFilter of currFilterValue) prev = merge(prev, internal(metadata, subFilter))
MergeSubFiltersAt(mem, entityName, prev, subFilters, i) ==
    IF i > Length(At(mem, subFilters)) THEN Mem(mem, Return(prev))
    ELSE Bind(getReferencedRelationsRecursiveInternalAt(mem, entityName,
                                                        At(mem, subFilters).v[i]),
              LAMBDA m, found :
                Bind(mergeAt(m, prev, found),
                     LAMBDA n, merged :
                       MergeSubFiltersAt(n, entityName, merged, subFilters, i + 1)))

\* the reduce from the i-th key of the filter on; its last statement makes the new
\* accumulator { ...prev, [curr]: merge(prev[curr] ?? {}, nestedRelations) }
ReduceReferencedFieldsAt(mem, entityName, f, prev, i) ==
    IF i > Len(Keys(At(mem, f))) THEN Mem(mem, Return(prev))
    ELSE LET curr == Keys(At(mem, f))[i]
             currFilterValue == Get(At(mem, f), curr)
             r == FindRelation(entityName, curr)
         IN Bind(IF (curr = "and" \/ curr = "or") /\ Truthy(At(mem, currFilterValue))
                 THEN MergeSubFiltersAt(mem, entityName, prev, currFilterValue, 1)
                 ELSE Mem(mem, Return(prev)),
                 LAMBDA m, merged :
                   IF r = 0 THEN ReduceReferencedFieldsAt(m, entityName, f, merged, i + 1)
                   ELSE
                   Bind(IF Truthy(At(m, currFilterValue))
                        THEN getReferencedRelationsRecursiveInternalAt(
                                 m, Metadata(entityName).relations[r].type, currFilterValue)
                        ELSE New(m, Obj(<<>>)),
                        LAMBDA n, nestedRelations :
                   Bind(IF HasProp(At(n, merged), curr)
                        THEN Mem(n, Return(Get(At(n, merged), curr)))
                        ELSE New(n, Obj(<<>>)),
                        LAMBDA k, known :
                   Bind(mergeAt(k, known, nestedRelations),
                        LAMBDA l, union :
                   Bind(New(l, SetProp(At(l, merged), curr, union)),
                        LAMBDA o, next :
                          ReduceReferencedFieldsAt(o, entityName, f, next, i + 1))))))

\* getReferencedRelationsRecursive(metadata, filter), called with both arguments
getReferencedRelationsRecursiveAt(mem, entityName, f) ==
    Bind(New(mem, Obj(<<>>)),
         LAMBDA m, prev : ReduceReferencedFieldsAt(m, entityName, f, prev, 1))

(***************************************************************************)
(* RelationQueryBuilder on an entity and a query in memory.  The methods   *)
(* read the entity; of their statements only whereBuilder.build, called by *)
(* applyFilter, works on objects other than the QueryBuilder.              *)
(***************************************************************************)
\* applyFilter(qb, filter): the memory after it
applyFilterAt(mem, f) ==
    IF ~Truthy(At(mem, f)) THEN mem ELSE WhereBuilderBuildAt(mem, f).heap

\* the query whose filter is in memory
QueryAt(mem, query, f) == [query EXCEPT !.filter = Deref(mem, f)]

\* select(entity, query)
RelationQueryBuilderSelectAt(mem, call, entity, f) ==
    Mem(IF getRelationMeta(call.entityMeta, call.relation).ok
        THEN applyFilterAt(mem, f) ELSE mem,
        RelationQueryBuilderSelect(call.entityMeta, call.relation, Deref(mem, entity),
                                   QueryAt(mem, call.query, f)))

\* count(entity, query)
RelationQueryBuilderCountAt(mem, call, entity, f) ==
    Mem(IF getRelationMeta(call.entityMeta, call.relation).ok
        THEN applyFilterAt(mem, f) ELSE mem,
        RelationQueryBuilderCount(call.entityMeta, call.relation, Deref(mem, entity),
                                  QueryAt(mem, call.query, f)))

\* aggregate(entity, query, aggregateQuery): applyFilter follows applyAggregate
RelationQueryBuilderAggregateAt(mem, call, entity, f) ==
    Mem(IF /\ getRelationMeta(call.entityMeta, call.relation).ok
           /\ AggregateBuilderBuild(
                  GetMetadata(getRelationMeta(call.entityMeta, call.relation).val.type).metadata,
                  call.aggregate, Undefined).ok
        THEN applyFilterAt(mem, f) ELSE mem,
        RelationQueryBuilderAggregate(call.entityMeta, call.relation, Deref(mem, entity),
                                      QueryAt(mem, call.query, f), call.aggregate))

(***************************************************************************)
(* The calls on arguments in memory: WhereBuilder.build(filter),           *)
(* getReferencedRelationsRecursive(metadata, filter) and select, count and *)
(* aggregate of RelationQueryBuilder with an entity and a query.           *)
(***************************************************************************)
\* filters with and/or lists, field entries, operands that are objects, and
\* comparisons that fail after others were built
MemFilters ==
    NodeFiltersOf(1)
    \cup {Filter1("a", c) :
            c \in {Cmp1("in", Arr(<<Num(1), Num(2)>>)), Cmp1("between", Between(1, 2)),
                   Cmp1("notBetween", Between(1, 2)), Cmp1("is", Num(0)),
                   Cmp1("eq", Obj(<< <<"lower", Num(1)>> >>)),
                   Obj(<< <<"gt", Num(1)>>, <<"bogus", Num(2)>> >>)}}

MemRelationFilters ==
    UNION {{Obj(a \o o \o e), Obj(e \o a \o o)} :
           a \in RelationLogicalEntries("and", 1), o \in RelationLogicalEntries("or", 1),
           e \in RelationFieldEntries}

MemRelationMetas ==
    {RelationMeta("m:1", TRUE, Undefined, Undefined, Arr(<<Str(ParentFk)>>),
                  Arr(<<Str(ParentFk)>>)),
     RelationMeta("1:1", TRUE, Undefined, Str(Child), Undefined, Undefined),
     RelationMeta("1:m", FALSE, Str(Child), Undefined, Undefined, Undefined)}

MemQueryFilters ==
    {Undefined, Filter1("a", Eq(1)), Filter1("a", Cmp1("in", Num(1))),
     Filter1("a", Obj(<< <<"eq", Num(1)>>, <<"bogus", Num(2)>> >>)),
     Obj(Field("or", Arr(<<Filter1("a", Eq(1)), Filter1("b", Eq(2))>>))
         \o Field("a", Cmp1("in", Arr(<<Num(1)>>))))}

MemCalls ==
    {[op |-> "build", inputs |-> <<f>>, args |-> Undefined] : f \in MemFilters}
    \cup {[op |-> "getReferencedRelationsRecursive", inputs |-> <<f>>,
           args |-> [entityName |-> "TestEntity"]] : f \in MemRelationFilters}
    \cup {[op |-> "getReferencedRelationsRecursive", inputs |-> <<f>>,
           args |-> [entityName |-> "TestRelation"]] : f \in RelationFilters}
    \cup {[op |-> o, inputs |-> <<e, f>>,
           args |-> [entityMeta |-> SourceMetadata(m), relation |-> r,
                     query |-> Query(Undefined, Undefined, Undefined),
                     aggregate |-> Undefined]] :
            o \in {"select", "count"}, e \in SourceEntities, f \in MemQueryFilters,
            m \in MemRelationMetas, r \in {Parent, BadRelation}}
    \cup {[op |-> "aggregate", inputs |-> <<e, f>>,
           args |-> [entityMeta |-> SourceMetadata(m), relation |-> r,
                     query |-> Query(Undefined, Undefined, Undefined),
                     aggregate |-> a]] :
            e \in SourceEntities, f \in MemQueryFilters, m \in MemRelationMetas,
            r \in {Parent, BadRelation}, a \in RelationAggregates}

\* the memory that holds the arguments of a call and nothing else
Loaded(call) == StoreAll(<<>>, call.inputs, <<>>, 1)

(***************************************************************************)
(* The specification of calls on arguments in memory: the operation is     *)
(* called, and called again with the same arguments.                       *)
(***************************************************************************)
InitMemory ==
    /\ pc = "start"
    /\ memCall \in MemCalls
    /\ heap = Loaded(memCall).heap
    /\ roots = Loaded(memCall).out.val
    /\ memOut = <<>>
    /\ filter = NoCall /\ where = NoResult /\ cmp = NoCall /\ cmpOut = NoResult
    /\ relCall = NoCall /\ relOut = NoResult
    /\ aggCall = NoCall /\ aggSelects = NoResult /\ aggRows = NoCall /\ aggOut = NoResult
    /\ linkCall = NoCall /\ linkOut = NoResult
    /\ rqbCall = NoCall /\ rqb = NoCall /\ rqbOut = NoResult
    /\ fqbCall = NoCall /\ fqbOut = NoResult /\ aggregateQb = NoCall
    /\ batchCall = NoCall /\ executions = NoCall /\ resultsMap = NoCall /\ batchOut = NoResult
    /\ service = NoCall /\ serviceCall = NoCall /\ manager = NoCall

\* the operation named op may be called: it was not called twice yet
MayCall(op) ==
    /\ memCall # NoCall
    /\ memCall.op = op
    /\ pc \in {"start", "called"}

\* the call has left the memory m.heap and has returned or thrown `out`
Ran(m, out) ==
    /\ heap' = m.heap
    /\ memOut' = Append(memOut, out)
    /\ pc' = IF pc = "start" THEN "called" ELSE "called again"
    /\ UNCHANGED <<memCall, roots, whereVars, relVars, aggVars, linkVars, rqbVars, fqbVars,
                   batchVars, svcVars>>

\* the call of an operation that returns an object in memory
RanTo(m) == Ran(m, Seen(m))

\* whereBuilder.build(filter)
MemWhereBuild ==
    /\ MayCall("build")
    /\ RanTo(WhereBuilderBuildAt(heap, roots[1]))

\* filterQueryBuilder.getReferencedRelationsRecursive(metadata, filter)
MemResolveRelations ==
    /\ MayCall("getReferencedRelationsRecursive")
    /\ RanTo(getReferencedRelationsRecursiveAt(heap, memCall.args.entityName, roots[1]))

\* relationQueryBuilder.select(entity, query)
MemSelect ==
    /\ MayCall("select")
    /\ Ran(RelationQueryBuilderSelectAt(heap, memCall.args, roots[1], roots[2]),
           RelationQueryBuilderSelectAt(heap, memCall.args, roots[1], roots[2]).out)

\* relationQueryBuilder.count(entity, query)
MemCount ==
    /\ MayCall("count")
    /\ Ran(RelationQueryBuilderCountAt(heap, memCall.args, roots[1], roots[2]),
           RelationQueryBuilderCountAt(heap, memCall.args, roots[1], roots[2]).out)

\* relationQueryBuilder.aggregate(entity, query, aggregateQuery)
MemAggregate ==
    /\ MayCall("aggregate")
    /\ Ran(RelationQueryBuilderAggregateAt(heap, memCall.args, roots[1], roots[2]),
           RelationQueryBuilderAggregateAt(heap, memCall.args, roots[1], roots[2]).out)

NextMemory == MemWhereBuild \/ MemResolveRelations \/ MemSelect \/ MemCount \/ MemAggregate

SpecMemory == InitMemory /\ [][NextMemory]_vars

(***************************************************************************)
(* Claims about the arguments of the compiler operations.                  *)
(***************************************************************************)
\* every argument of the call is in memory what it was when the call was made
ArgumentsAsGiven ==
    \A i \in 1..Len(roots) : Deref(heap, roots[i]) = memCall.inputs[i]

\* no object the caller handed over was written to: every cell of them is as loaded
CellsAsLoaded ==
    \A a \in 1..Len(Loaded(memCall).heap) : heap[a] = Loaded(memCall).heap[a]

\* C22: after WhereBuilder.build, getReferencedRelationsRecursive and select, count
\* and aggregate of RelationQueryBuilder, returned or thrown, the filter at every
\* depth and the source entity are what they were before the call, and the same
\* call made again has the same result.
C22_InputsNotMutated ==
    (memCall # NoCall) =>
        /\ ArgumentsAsGiven
        /\ CellsAsLoaded
        /\ (pc = "called again") => memOut[1] = memOut[2]

\* select was called twice with an entity that holds its loaded relation and a filter
\* with a list, and has built conditions in memory
C22_Witness ==
    /\ memCall # NoCall
    /\ pc = "called again"
    /\ memCall.op = "select"
    /\ HasProp(memCall.inputs[1], Parent)
    /\ HasProp(memCall.inputs[2], "or")
    /\ memOut[2].ok
    /\ Len(heap) > Len(Loaded(memCall).heap)

(***************************************************************************)
(* Claims about the link of select, count and aggregate.                   *)
(***************************************************************************)
\* what a query restricts the related entity to, apart from the filter of the
\* query: its first condition; a join through the property x to an alias whose
\* primary key is compared with a value restricts x to that value
LinkOf(qb) ==
    IF qb.joins # <<>>
    THEN Condition(SubSeq(qb.joins[1].field, Len(AutoAlias) + 2, Len(qb.joins[1].field)),
                   qb.where[1].v[1][2])
    ELSE qb.where[1]

\* the query select makes of the entity of the call, without a filter
SelectedFor(call) ==
    RelationQueryBuilderSelect(call.entityMeta, call.relation, call.entity,
                               Query(Undefined, Undefined, Undefined)).val

\* C23: for the same entity and relation, the queries of count and of aggregate
\* restrict the related entity by the link condition of the query of select, for
\* every kind of relation and whatever of the entity is loaded.
C23_SameLinkCondition ==
    /\ (rqbCall # NoCall /\ pc = "counted" /\ rqbOut.ok) =>
          LinkOf(rqbOut.val) = LinkOf(SelectedFor(rqbCall))
    /\ (rqbCall # NoCall /\ pc = "aggregated") =>
          LinkOf(aggregateQb) = LinkOf(SelectedFor(rqbCall))

(***************************************************************************)
(* Claims about the two operator mappers.                                  *)
(***************************************************************************)
\* the conditions p and q are the same condition, or are both predicates on the
\* field that hold of the same values
EquivalentOn(p, q, field) ==
    \/ p = q
    \/ /\ IsPredicateOn(p, field)
       /\ IsPredicateOn(q, field)
       /\ \A x \in Numbers : Satisfies(p, field, x) <=> Satisfies(q, field, x)

\* what WhereBuilder.build gives for the one comparison of a call of
\* SQLComparisonBuilder.build
WhereBuiltFor(call) == WhereBuilderBuild(Filter1(call.field, Cmp1(call.op, call.val)))

\* C24: for every field, operator name and operand, WhereBuilder.build of
\* {field: {operator: operand}} and SQLComparisonBuilder.build(field, operator,
\* operand) both fail, or both succeed with equivalent predicates on the field.
C24_MappersAgree ==
    (pc = "done" /\ cmp # NoCall) =>
        /\ WhereBuiltFor(cmp).ok = cmpOut.ok
        /\ cmpOut.ok => EquivalentOn(WhereBuiltFor(cmp).val, cmpOut.val, cmp.field)

(***************************************************************************)
(* Claims about the naming heuristic of the relation linker.               *)
(***************************************************************************)
\* the FK value of the call was resolved by the naming heuristic: the FK field and
\* the property <relationName>Id are undefined on the entity and a key matched
ByHeuristic(call) ==
    /\ call.relationMeta.kind = "m:1"
    /\ FkSources(call.entity, call.relationMeta, call.relationPrimaryKey)[1] = Undefined
    /\ FkSources(call.entity, call.relationMeta, call.relationPrimaryKey)[2] = Undefined
    /\ MatchingKey(call.entity, call.relationMeta) # Undefined

\* the property key designates the FK of the relation: it is the name of the
\* relation followed by id, whatever the letter case
DesignatesFkOf(key, relationMeta) ==
    toLowerCase(key) = toLowerCase(relationMeta.name.v) \o <<"i", "d">>

\* C25: when the FK value of a many-to-one relation is resolved by the naming
\* heuristic, the property it is read from designates the FK of that relation: it
\* is not the primary key of the entity, not a property id, and not the FK property
\* of another relation.
C25_HeuristicReadsRelationFk ==
    (Linked /\ ByHeuristic(linkCall)) =>
        LET key == MatchingKey(linkCall.entity, linkCall.relationMeta).v
        IN /\ key # linkCall.entityPrimaryKey
           /\ toLowerCase(key) # <<"i", "d">>
           /\ DesignatesFkOf(key, linkCall.relationMeta)

(***************************************************************************)
(* Claims about the shape of the link condition.                           *)
(***************************************************************************)
\* the field names of the related entity: its primary key and the properties that
\* are the inverse side of a relation of the source entity
RelatedFields == {RelationPk, Child, Parents}

\* C26: the link condition of every call has exactly one entry, whose key is a
\* field name of the related entity and whose value is not undefined.
C26_LinkConditionDefined ==
    Linked =>
        /\ Len(linkOut.val.v) = 1
        /\ linkOut.val.v[1][1] \in RelatedFields
        /\ linkOut.val.v[1][2] # Undefined

(***************************************************************************)
(* Claims about the keys the aggregate decoder accepts.                    *)
(***************************************************************************)
\* rows were decoded into a response
Decoded == pc = "done" /\ aggRows # NoCall /\ aggOut.ok

\* the key is the alias of an entry of the decoded row: the function token of the
\* bucket of the entry, an underscore and the field name of the entry
IsAliasOfEntry(key, response) ==
    \E list \in QueryLists : \E entry \in EntriesOf(response) :
        entry[1] = BucketOf(list) /\ key = EncodedAlias(<<list, entry[2]>>)

\* C27: in every decoded row, distinct keys of the raw row have distinct (bucket,
\* field) entries, and every key is a function token of the pattern, an underscore
\* and the field name of its entry, with nothing before the token.
C27_DecodeInjective ==
    Decoded =>
        \A r \in 1..Length(aggRows) :
            /\ Cardinality(EntriesOf(aggOut.val.v[r])) = Len(Keys(aggRows.v[r]))
            /\ \A k \in 1..Len(Keys(aggRows.v[r])) :
                  IsAliasOfEntry(Keys(aggRows.v[r])[k], aggOut.val.v[r])

(***************************************************************************)
(* The EntityManager, as far as the services drive it.  It holds the       *)
(* stored rows of the entity of the service and of the related entity and  *)
(* the stored contents of the relation collections.  Entities are loaded   *)
(* from rows, changed in memory by assign, remove and the collection       *)
(* methods, and flush writes the changes to the store.  A condition is     *)
(* read as MikroORM reads a FilterQuery.                                   *)
(***************************************************************************)
\* new Date() at the time now
Date(now) == [t |-> "date", v |-> now]

\* exceptions of @nestjs/common
NotFoundException(msg, arg) ==
    [ok |-> FALSE, val |-> [msg |-> msg, arg |-> arg, name |-> "NotFoundException"]]
MethodNotAllowedException(msg, arg) ==
    [ok |-> FALSE, val |-> [msg |-> msg, arg |-> arg, name |-> "MethodNotAllowedException"]]

\* the EntityManager at the start of a call: the store, the entities in memory as
\* they are stored, none loaded by the call, nothing done
EntityManager(rows, relatedRows, stored, now) ==
    [table |-> rows, managed |-> rows, related |-> relatedRows, links |-> stored,
     members |-> stored, clock |-> now, loaded |-> <<>>, found |-> <<>>, log |-> <<>>,
     out |-> NoResult]

Did(em, what) == [em EXCEPT !.log = Append(@, what)]
Gave(em, result) == [em EXCEPT !.out = result]
Loading(em, places) == [em EXCEPT !.loaded = places]

\* the call goes on with the value a step returned, and ends with what a step threw
Proceed(em, result, Next(_)) == IF result.ok THEN Next(result.val) ELSE Gave(em, result)

\* the call goes on when nothing was thrown so far
Going(em, Next(_)) == IF em.out.ok THEN Next(em) ELSE em

\* the value x compared by an operator of a condition; null compares as in SQL
Operates(op, x, y) ==
    CASE op = "$eq" -> x = y
      [] op = "$ne" -> x # Null /\ x # y
      [] op = "$in" -> y.t = "array" /\ \E i \in 1..Len(y.v) : y.v[i] = x

\* the condition holds of the row
RECURSIVE Holds(_, _)
Holds(cond, row) ==
    \A i \in 1..Len(cond.v) :
        LET key == cond.v[i][1]
            val == cond.v[i][2]
        IN CASE key = "$and" -> \A j \in 1..Len(val.v) : Holds(val.v[j], row)
             [] key = "$or" -> \E j \in 1..Len(val.v) : Holds(val.v[j], row)
             [] val.t = "object" ->
                    \A j \in 1..Len(val.v) : Operates(val.v[j][1], Get(row, key), val.v[j][2])
             [] OTHER -> Get(row, key) = val

\* em.find(Entity, where, { filters: false }): the places of the rows where holds of
Find(rows, cond) == SelectSeq([i \in 1..Len(rows) |-> i], LAMBDA i : Holds(cond, rows[i]))

\* qb.applyFilters(): the conditions of the filters the entity enables by default
RECURSIVE QbApplyFiltersFrom(_, _, _)
QbApplyFiltersFrom(qb, filters, i) ==
    IF i > Len(filters) THEN qb
    ELSE QbApplyFiltersFrom(QbAndWhere(qb, filters[i]), filters, i + 1)

QbApplyFilters(qb, repo) == QbApplyFiltersFrom(qb, repo.filters, 1)

\* qb.getResultList(): the places of the rows every condition of the query holds
\* of, in the order of the table, from the offset on and no more than the limit
getResultList(qb, rows) ==
    LET found == SelectSeq([i \in 1..Len(rows) |-> i],
                           LAMBDA i : \A c \in 1..Len(qb.where) : Holds(qb.where[c], rows[i]))
        from == IF qb.offset = Undefined THEN 0 ELSE qb.offset.v
        rest == SubSeq(found, from + 1, Len(found))
    IN IF qb.limit = Undefined THEN rest ELSE Take(rest, qb.limit.v)

\* wrap(entity).assign(data) on the entity loaded from the row at place i
AssignAt(em, i, data) == Did([em EXCEPT !.managed[i] = ObjectAssign(@, data)], "assign")

RECURSIVE AssignEach(_, _, _)
AssignEach(em, places, data) ==
    IF places = <<>> THEN em
    ELSE AssignEach(AssignAt(em, Head(places), data), Tail(places), data)

\* em.remove(entity): the entity is gone from memory and scheduled for deletion
Removed == Undefined
RemoveAt(em, i) == Did([em EXCEPT !.managed[i] = Removed], "remove")

RECURSIVE RemoveEach(_, _)
RemoveEach(em, places) ==
    IF places = <<>> THEN em ELSE RemoveEach(RemoveAt(em, Head(places)), Tail(places))

\* em.flush(): the entities in memory and the contents of the collections are
\* written to the store; the store refuses two rows with one primary key
Flush(em, primaryKey) ==
    LET rows == SelectSeq(em.managed, LAMBDA r : r # Removed)
    IN IF \E i, j \in 1..Len(rows) :
             i # j /\ Get(rows[i], primaryKey) = Get(rows[j], primaryKey)
       THEN Gave(Did(em, "flush"),
                 Throw("UniqueConstraintViolationException", Interpolate(Undefined)))
       ELSE Did([em EXCEPT !.table = rows, !.managed = rows, !.links = em.members], "flush")

\* the entities of the places, as they are in memory
EntitiesAt(em, places) == Arr([k \in 1..Len(places) |-> em.managed[places[k]]])

(***************************************************************************)
(* FilterQueryBuilder.selectById                                           *)
(***************************************************************************)
FilterQueryBuilderSelectById(repo, id, query) ==
    LET primaryKey == repo.primaryKeys[1]
        qb == createQueryBuilder(repo.entityName, repo.className)
        byId == IF id.t = "array"
                THEN QbWhere(qb, Filter1(primaryKey, Obj(<< <<"$in", id>> >>)))
                ELSE QbWhere(qb, Filter1(primaryKey, id))
    IN Then(applyFilter(byId, query.filter),
            LAMBDA filtered :
                Return(applyPaging(applySorting(filtered, query.sorting), query.paging)))

(***************************************************************************)
(* MikroOrmQueryService.  A method takes the service (its repository and   *)
(* its useSoftDelete option) and the EntityManager, and gives the          *)
(* EntityManager as the method leaves it, with what it returned or threw.  *)
(***************************************************************************)
\* opts ?? {}, read as a Query
QueryOfOptions(opts) ==
    IF ~Truthy(opts) THEN Query(Undefined, Undefined, Undefined)
    ELSE Query(Get(opts, "filter"), Get(opts, "sorting"), Get(opts, "paging"))

\* the entities of a method that loaded a list
ReturnEntities(em) == Gave(em, Return(EntitiesAt(em, em.loaded)))

\* query(query)
MikroOrmQueryServiceQuery(svc, em, query) ==
    Proceed(em, FilterQueryBuilderSelect(svc.repo, query),
            LAMBDA qb :
                ReturnEntities(Loading(Did(em, "find"),
                                       getResultList(QbApplyFilters(qb, svc.repo), em.table))))

\* count(filter)
MikroOrmQueryServiceCount(svc, em, f) ==
    Proceed(em, FilterQueryBuilderSelect(svc.repo, Query(f, Undefined, Undefined)),
            LAMBDA qb :
                Gave(Did(em, "find"),
                     Return(Num(Len(getResultList(QbApplyFilters(qb, svc.repo), em.table))))))

\* qb.getSingleResult() ?? undefined
getSingleResult(em, places) ==
    IF places = <<>> THEN Gave(em, Return(Undefined))
    ELSE Gave(Loading(em, <<places[1]>>), Return(em.managed[places[1]]))

\* a mutant of findById: the filters of the entity are not applied
MikroOrmQueryServiceFindByIdUnfiltered(svc, em, id, opts) ==
    Proceed(em, FilterQueryBuilderSelectById(svc.repo, id, QueryOfOptions(opts)),
            LAMBDA qb : getSingleResult(Did(em, "find"), getResultList(qb, em.table)))

\* findById(id, opts)
MikroOrmQueryServiceFindById(svc, em, id, opts) ==
    Proceed(em, FilterQueryBuilderSelectById(svc.repo, id, QueryOfOptions(opts)),
            LAMBDA qb :
                getSingleResult(Did(em, "find"),
                                getResultList(QbApplyFilters(qb, svc.repo), em.table)))

\* the NotFoundException of getById and restoreOne
UnableToFind(svc, id) ==
    NotFoundException("Unable to find ${this.EntityClass.name} with id: ${id}",
                      <<svc.repo.entityName, Interpolate(id)>>)

NotFoundUnlessFound(svc, em, id) ==
    IF em.out.ok /\ ~Truthy(em.out.val) THEN Gave(em, UnableToFind(svc, id)) ELSE em

\* getById(id, opts)
MikroOrmQueryServiceGetById(svc, em, id, opts) ==
    NotFoundUnlessFound(svc, MikroOrmQueryServiceFindById(svc, em, id, opts), id)

\* ensureIdIsNotPresent(e)
ensureIdIsNotPresent(svc, e) ==
    IF Truthy(Get(e, svc.repo.primaryKeys[1]))
    THEN Throw("Id cannot be specified when updating", Interpolate(Undefined))
    ELSE Return(Undefined)

\* ensureSoftDeleteEnabled()
ensureSoftDeleteEnabled(svc) ==
    IF ~svc.useSoftDelete
    THEN MethodNotAllowedException("Restore not allowed for non soft deleted entity ",
                                   Interpolate(svc.repo.entityName))
    ELSE Return(Undefined)

\* the entity of a method that loaded one, after the flush
ReturnLoaded(em) == Going(em, LAMBDA e : Gave(e, Return(e.managed[e.loaded[1]])))

\* { updatedCount: n } and { deletedCount: n }
ReturnCount(em, name) ==
    Going(em, LAMBDA e : Gave(e, Return(Obj(<< <<name, Num(Len(e.loaded))>> >>))))

\* updateOne(id, update, opts)
MikroOrmQueryServiceUpdateOne(svc, em, id, update, opts) ==
    Proceed(em, ensureIdIsNotPresent(svc, update),
            LAMBDA checked :
                Going(MikroOrmQueryServiceGetById(svc, em, id, opts),
                      LAMBDA got :
                          ReturnLoaded(Flush(AssignAt(got, got.loaded[1], update),
                                             svc.repo.primaryKeys[1]))))

\* updateMany(update, filter)
MikroOrmQueryServiceUpdateMany(svc, em, update, f) ==
    Proceed(em, ensureIdIsNotPresent(svc, update),
            LAMBDA checked :
                Going(MikroOrmQueryServiceQuery(svc, em, Query(f, Undefined, Undefined)),
                      LAMBDA got :
                          ReturnCount(Flush(AssignEach(got, got.loaded, update),
                                            svc.repo.primaryKeys[1]),
                                      "updatedCount")))

\* { deletedAt: new Date() }: the clock is read
DeletedNow(em) == Obj(<< <<"deletedAt", Date(em.clock)>> >>)
Tick(em) == [em EXCEPT !.clock = @ + 1]

\* the entity deleteOne returns after em.remove(entity).flush(): its primary key
\* is cleared
ReturnCleared(em, entity, primaryKey) ==
    Going(em, LAMBDA e : Gave(e, Return(SetProp(entity, primaryKey, Undefined))))

\* deleteOne(id, opts)
MikroOrmQueryServiceDeleteOne(svc, em, id, opts) ==
    Going(MikroOrmQueryServiceGetById(svc, em, id, opts),
          LAMBDA got :
              IF svc.useSoftDelete
              THEN ReturnLoaded(Flush(Tick(AssignAt(got, got.loaded[1], DeletedNow(got))),
                                      svc.repo.primaryKeys[1]))
              ELSE ReturnCleared(Flush(RemoveAt(got, got.loaded[1]), svc.repo.primaryKeys[1]),
                                 got.managed[got.loaded[1]], svc.repo.primaryKeys[1]))

\* deleteMany(filter)
MikroOrmQueryServiceDeleteMany(svc, em, f) ==
    Going(MikroOrmQueryServiceQuery(svc, em, Query(f, Undefined, Undefined)),
          LAMBDA got :
              IF svc.useSoftDelete
              THEN ReturnCount(Flush(IF got.loaded = <<>> THEN got
                                     ELSE Tick(AssignEach(got, got.loaded, DeletedNow(got))),
                                     svc.repo.primaryKeys[1]),
                               "deletedCount")
              ELSE ReturnCount(Flush(RemoveEach(got, got.loaded), svc.repo.primaryKeys[1]),
                               "deletedCount"))

\* { deletedAt: null }
NotDeleted == Obj(<< <<"deletedAt", Null>> >>)

\* the where clause of restoreOne: the primary key, and the filter of opts if any
RestoreOneWhere(svc, id, opts) ==
    IF Truthy(opts) /\ Truthy(Get(opts, "filter"))
    THEN Then(WhereBuilderBuild(Get(opts, "filter")),
              LAMBDA additionalWhere :
                  Return(Obj(<< <<"$and", Arr(<<Filter1(svc.repo.primaryKeys[1], id),
                                               additionalWhere>>)>> >>)))
    ELSE Return(Filter1(svc.repo.primaryKeys[1], id))

\* em.findOne(Entity, where, { filters: false })
FindOne(em, cond) ==
    IF Find(em.table, cond) = <<>> THEN Gave(Did(em, "find"), Return(Null))
    ELSE Gave(Loading(Did(em, "find"), <<Find(em.table, cond)[1]>>),
              Return(em.managed[Find(em.table, cond)[1]]))

\* restoreOne(id, opts)
MikroOrmQueryServiceRestoreOne(svc, em, id, opts) ==
    Proceed(em, ensureSoftDeleteEnabled(svc),
            LAMBDA enabled :
                Proceed(em, RestoreOneWhere(svc, id, opts),
                        LAMBDA whereClause :
                            Going(NotFoundUnlessFound(svc, FindOne(em, whereClause), id),
                                  LAMBDA got :
                                      ReturnLoaded(Flush(AssignAt(got, got.loaded[1], NotDeleted),
                                                         svc.repo.primaryKeys[1])))))

\* restoreMany(filter)
MikroOrmQueryServiceRestoreMany(svc, em, f) ==
    Proceed(em, ensureSoftDeleteEnabled(svc),
            LAMBDA enabled :
                Proceed(em, WhereBuilderBuild(f),
                        LAMBDA whereClause :
                            ReturnCount(
                                Flush(AssignEach(Loading(Did(em, "find"),
                                                         Find(em.table, whereClause)),
                                                 Find(em.table, whereClause), NotDeleted),
                                      svc.repo.primaryKeys[1]),
                                "updatedCount")))

(***************************************************************************)
(* RelationQueryService: addRelations, setRelations and removeRelations.   *)
(* The contents of a relation collection are pairs <<key of the entity,    *)
(* key of the related entity>>.                                            *)
(***************************************************************************)
\* getRelationMeta(relationName) of the service
RelationQueryServiceGetRelationMeta(svc, relationName) ==
    IF \E i \in 1..Len(svc.repo.relations) : svc.repo.relations[i].name = relationName
    THEN Return(svc.repo.relations[CHOOSE i \in 1..Len(svc.repo.relations) :
                                      svc.repo.relations[i].name = relationName])
    ELSE Throw("Unable to find relation ${relationName} on ${this.EntityClass.name}",
               <<relationName, svc.repo.entityName>>)

\* em.find(RelationEntity, where): the related entities found
FindRelated(em, cond) == [Did(em, "find") EXCEPT !.found = Find(em.related, cond)]

\* getRelations(relationName, ids, filter)
RelationQueryServiceGetRelations(svc, em, relationName, ids, f) ==
    Proceed(em, RelationQueryServiceGetRelationMeta(svc, relationName),
            LAMBDA relationMeta :
                IF Truthy(f)
                THEN Proceed(em, WhereBuilderBuild(f),
                             LAMBDA additionalFilter :
                                 FindRelated(em,
                                     Obj(<< <<"$and",
                                              Arr(<<Filter1(relationMeta.primaryKeys[1],
                                                            Obj(<< <<"$in", ids>> >>)),
                                                    additionalFilter>>)>> >>)))
                ELSE FindRelated(em, Filter1(relationMeta.primaryKeys[1],
                                             Obj(<< <<"$in", ids>> >>))))

\* a mutant of foundAllRelations: no more relations than ids
foundAllRelationsAtMost(relationIds, relations) ==
    Cardinality({relationIds.v[i] : i \in 1..Len(relationIds.v)}) >= Len(relations)

\* foundAllRelations(relationIds, relations)
foundAllRelations(relationIds, relations) ==
    Cardinality({relationIds.v[i] : i \in 1..Len(relationIds.v)}) = Len(relations)

\* collection && typeof collection.add === 'function': the property of the relation
\* holds a Collection when the relation is to many
IsCollection(svc, relationName) ==
    RelationQueryServiceGetRelationMeta(svc, relationName).val.kind \in {"1:m", "m:n"}

\* the keys of the entity the call loaded and of the related entity found at a place
OwnerKey(svc, em) == Get(em.managed[em.loaded[1]], svc.repo.primaryKeys[1])
RelatedKey(svc, em, relationName, place) ==
    Get(em.related[place],
        RelationQueryServiceGetRelationMeta(svc, relationName).val.primaryKeys[1])

\* the pairs of the entity with the related entities found
FoundPairs(svc, em, relationName) ==
    {<<OwnerKey(svc, em), RelatedKey(svc, em, relationName, em.found[k])>> :
        k \in 1..Len(em.found)}

\* for (const relation of relations) collection.add(relation)
CollectionAdd(svc, em, relationName) ==
    Did([em EXCEPT !.members = @ \cup FoundPairs(svc, em, relationName)], "add")

\* await collection.init(); collection.set(relations)
CollectionSet(svc, em, relationName) ==
    Did(Did([em EXCEPT !.members = {p \in @ : p[1] # OwnerKey(svc, em)}
                                   \cup FoundPairs(svc, em, relationName)],
            "init"), "set")

\* await collection.init(); for (const relation of relations) collection.remove(relation)
CollectionRemove(svc, em, relationName) ==
    Did(Did([em EXCEPT !.members = @ \ FoundPairs(svc, em, relationName)], "init"), "remove")

\* opts?.relationFilter
RelationFilterOf(opts) == IF Truthy(opts) THEN Get(opts, "relationFilter") ELSE Undefined

UnableToFindAll(svc, relationName, doing) ==
    Throw("Unable to find all ${relationName} ${doing} ${this.EntityClass.name}",
          <<relationName, doing, svc.repo.entityName>>)

\* addRelations(relationName, id, relationIds, opts)
RelationQueryServiceAddRelations(svc, em, relationName, id, relationIds, opts) ==
    Going(MikroOrmQueryServiceGetById(svc, em, id, opts),
          LAMBDA got :
              Going(RelationQueryServiceGetRelations(svc, got, relationName, relationIds,
                                                     RelationFilterOf(opts)),
                    LAMBDA rel :
                        IF ~foundAllRelations(relationIds, rel.found)
                        THEN Gave(rel, UnableToFindAll(svc, relationName, "to add to"))
                        ELSE IF IsCollection(svc, relationName)
                        THEN ReturnLoaded(Flush(CollectionAdd(svc, rel, relationName),
                                                svc.repo.primaryKeys[1]))
                        ELSE ReturnLoaded(rel)))

\* setRelations(relationName, id, relationIds, opts)
RelationQueryServiceSetRelations(svc, em, relationName, id, relationIds, opts) ==
    Going(MikroOrmQueryServiceGetById(svc, em, id, opts),
          LAMBDA got :
              Going(RelationQueryServiceGetRelations(svc, got, relationName, relationIds,
                                                     RelationFilterOf(opts)),
                    LAMBDA rel :
                        IF Len(relationIds.v) # 0 /\ ~foundAllRelations(relationIds, rel.found)
                        THEN Gave(rel, UnableToFindAll(svc, relationName, "to set on"))
                        ELSE IF IsCollection(svc, relationName)
                        THEN ReturnLoaded(Flush(CollectionSet(svc, rel, relationName),
                                                svc.repo.primaryKeys[1]))
                        ELSE ReturnLoaded(rel)))

\* removeRelations(relationName, id, relationIds, opts)
RelationQueryServiceRemoveRelations(svc, em, relationName, id, relationIds, opts) ==
    Going(MikroOrmQueryServiceGetById(svc, em, id, opts),
          LAMBDA got :
              Going(RelationQueryServiceGetRelations(svc, got, relationName, relationIds,
                                                     RelationFilterOf(opts)),
                    LAMBDA rel :
                        IF ~foundAllRelations(relationIds, rel.found)
                        THEN Gave(rel, UnableToFindAll(svc, relationName, "to remove from"))
                        ELSE IF IsCollection(svc, relationName)
                        THEN ReturnLoaded(Flush(CollectionRemove(svc, rel, relationName),
                                                svc.repo.primaryKeys[1]))
                        ELSE ReturnLoaded(rel)))

(***************************************************************************)
(* The calls of MikroOrmQueryService: a service of TestSoftDeleteEntity,   *)
(* whose filter softDelete { deletedAt: null } is enabled by default, over *)
(* two stored rows.                                                        *)
(***************************************************************************)
MaxClock == 2       \* new Date() is read at most MaxClock times

TestSoftDeleteEntity ==
    [entityName |-> "TestSoftDeleteEntity", className |-> "TestSoftDeleteEntity",
     primaryKeys |-> <<"testEntityPk">>, filters |-> <<Filter1("deletedAt", Null)>>,
     relations |-> <<>>]

SoftDeleteRow(key, text) ==
    Obj(<< <<"testEntityPk", Num(key)>>, <<"stringType", Str(<<text>>)>>,
           <<"deletedAt", Null>> >>)

SoftDeleteRows == <<SoftDeleteRow(1, "a"), SoftDeleteRow(2, "b")>>

ServiceIds == {Num(1), Num(2), Num(9)}

ServiceFilters ==
    {Obj(<<>>), Filter1("stringType", Cmp1("eq", Str(<<"a">>))),
     Filter1("deletedAt", Cmp1("isNot", Null))}

ServiceOpts == {Undefined, Obj(<< <<"filter", Filter1("stringType", Cmp1("eq", Str(<<"a">>)))>> >>)}

ServiceUpdates ==
    {Obj(<< <<"stringType", Str(<<"c">>)>> >>),
     Obj(<< <<"testEntityPk", Num(9)>>, <<"stringType", Str(<<"c">>)>> >>),
     Obj(<< <<"testEntityPk", Num(0)>> >>)}

ServiceCall(op, id, f, update, opts) ==
    [op |-> op, id |-> id, filter |-> f, update |-> update, opts |-> opts]

\* the EntityManager at the start of the next call
Restart(em) == EntityManager(em.table, em.related, em.links, em.clock)

(***************************************************************************)
(* The specification of the query service: calls of its methods, one after *)
(* the other, on a service created with or without useSoftDelete.          *)
(***************************************************************************)
InitService ==
    /\ pc = "ready"
    /\ service \in {[repo |-> TestSoftDeleteEntity, useSoftDelete |-> b] : b \in BOOLEAN}
    /\ manager = EntityManager(SoftDeleteRows, <<>>, {}, 0)
    /\ serviceCall = NoCall
    /\ filter = NoCall /\ where = NoResult /\ cmp = NoCall /\ cmpOut = NoResult
    /\ relCall = NoCall /\ relOut = NoResult
    /\ aggCall = NoCall /\ aggSelects = NoResult /\ aggRows = NoCall /\ aggOut = NoResult
    /\ linkCall = NoCall /\ linkOut = NoResult
    /\ rqbCall = NoCall /\ rqb = NoCall /\ rqbOut = NoResult
    /\ fqbCall = NoCall /\ fqbOut = NoResult /\ aggregateQb = NoCall
    /\ batchCall = NoCall /\ executions = NoCall /\ resultsMap = NoCall /\ batchOut = NoResult
    /\ memCall = NoCall /\ heap = NoCall /\ roots = NoCall /\ memOut = NoCall

\* the call was made and left the EntityManager as em
Served(call, em) ==
    /\ serviceCall' = call
    /\ manager' = em
    /\ pc' = "returned"
    /\ UNCHANGED <<service, whereVars, relVars, aggVars, linkVars, rqbVars, fqbVars, batchVars,
                   memVars>>

ServiceQuery ==
    /\ pc \in {"ready", "returned"}
    /\ \E f \in ServiceFilters :
          Served(ServiceCall("query", Undefined, f, Undefined, Undefined),
                 MikroOrmQueryServiceQuery(service, Restart(manager),
                                           Query(f, Undefined, Undefined)))

ServiceCount ==
    /\ pc \in {"ready", "returned"}
    /\ \E f \in ServiceFilters :
          Served(ServiceCall("count", Undefined, f, Undefined, Undefined),
                 MikroOrmQueryServiceCount(service, Restart(manager), f))

ServiceFindById ==
    /\ pc \in {"ready", "returned"}
    /\ \E id \in ServiceIds, opts \in ServiceOpts :
          Served(ServiceCall("findById", id, Undefined, Undefined, opts),
                 MikroOrmQueryServiceFindById(service, Restart(manager), id, opts))

ServiceGetById ==
    /\ pc \in {"ready", "returned"}
    /\ \E id \in ServiceIds, opts \in ServiceOpts :
          Served(ServiceCall("getById", id, Undefined, Undefined, opts),
                 MikroOrmQueryServiceGetById(service, Restart(manager), id, opts))

ServiceUpdateOne ==
    /\ pc \in {"ready", "returned"}
    /\ \E id \in ServiceIds, update \in ServiceUpdates :
          Served(ServiceCall("updateOne", id, Undefined, update, Undefined),
                 MikroOrmQueryServiceUpdateOne(service, Restart(manager), id, update, Undefined))

ServiceUpdateMany ==
    /\ pc \in {"ready", "returned"}
    /\ \E f \in ServiceFilters, update \in ServiceUpdates :
          Served(ServiceCall("updateMany", Undefined, f, update, Undefined),
                 MikroOrmQueryServiceUpdateMany(service, Restart(manager), update, f))

ServiceDeleteOne ==
    /\ pc \in {"ready", "returned"}
    /\ service.useSoftDelete => manager.clock < MaxClock
    /\ \E id \in ServiceIds, opts \in ServiceOpts :
          Served(ServiceCall("deleteOne", id, Undefined, Undefined, opts),
                 MikroOrmQueryServiceDeleteOne(service, Restart(manager), id, opts))

ServiceDeleteMany ==
    /\ pc \in {"ready", "returned"}
    /\ service.useSoftDelete => manager.clock < MaxClock
    /\ \E f \in ServiceFilters :
          Served(ServiceCall("deleteMany", Undefined, f, Undefined, Undefined),
                 MikroOrmQueryServiceDeleteMany(service, Restart(manager), f))

ServiceRestoreOne ==
    /\ pc \in {"ready", "returned"}
    /\ \E id \in ServiceIds, opts \in ServiceOpts :
          Served(ServiceCall("restoreOne", id, Undefined, Undefined, opts),
                 MikroOrmQueryServiceRestoreOne(service, Restart(manager), id, opts))

ServiceRestoreMany ==
    /\ pc \in {"ready", "returned"}
    /\ \E f \in ServiceFilters :
          Served(ServiceCall("restoreMany", Undefined, f, Undefined, Undefined),
                 MikroOrmQueryServiceRestoreMany(service, Restart(manager), f))

NextService ==
    \/ ServiceQuery \/ ServiceCount \/ ServiceFindById \/ ServiceGetById
    \/ ServiceUpdateOne \/ ServiceUpdateMany
    \/ ServiceDeleteOne \/ ServiceDeleteMany
    \/ ServiceRestoreOne \/ ServiceRestoreMany

SpecService == InitService /\ [][NextService]_vars

(***************************************************************************)
(* The calls of the relation methods: a service of TestEntity, which has   *)
(* the collection manyTestRelations and the single relation                *)
(* oneTestRelation to TestRelation.                                        *)
(***************************************************************************)
TestEntity ==
    [entityName |-> "TestEntity", className |-> "TestEntity",
     primaryKeys |-> <<"testEntityPk">>, filters |-> <<>>,
     relations |-> <<[name |-> "manyTestRelations", kind |-> "m:n",
                      primaryKeys |-> <<"testRelationPk">>],
                     [name |-> "oneTestRelation", kind |-> "1:1",
                      primaryKeys |-> <<"testRelationPk">>]>>]

TestEntityRows ==
    <<Obj(<< <<"testEntityPk", Num(1)>>, <<"stringType", Str(<<"a">>)>> >>),
      Obj(<< <<"testEntityPk", Num(2)>>, <<"stringType", Str(<<"b">>)>> >>)>>

TestRelationRow(key, text) ==
    Obj(<< <<"testRelationPk", Num(key)>>, <<"relationName", Str(<<text>>)>> >>)

TestRelationRows ==
    <<TestRelationRow(1, "a"), TestRelationRow(2, "b"), TestRelationRow(3, "a")>>

\* the collections as stored at first: any relations of entity 1, one of entity 2
StoredLinks ==
    {own \cup {<<Num(2), Num(1)>>} : own \in SUBSET {<<Num(1), Num(k)>> : k \in 1..3}}

RelationNames == {"manyTestRelations", "oneTestRelation", "bad"}

RelationIdLists ==
    {Arr(<<>>), Arr(<<Num(1)>>), Arr(<<Num(9)>>), Arr(<<Num(2), Num(3)>>),
     Arr(<<Num(1), Num(1)>>), Arr(<<Num(1), Num(9)>>), Arr(<<Num(1), Num(1), Num(9)>>)}

ModifyRelationOpts ==
    {Undefined,
     Obj(<< <<"relationFilter", Filter1("relationName", Cmp1("eq", Str(<<"a">>)))>> >>)}

RelationCall(op, relationName, id, relationIds, opts) ==
    [op |-> op, relationName |-> relationName, id |-> id, relationIds |-> relationIds,
     opts |-> opts]

(***************************************************************************)
(* The specification of the relation methods: calls of addRelations,       *)
(* setRelations and removeRelations, one after the other.                  *)
(***************************************************************************)
InitModifyRelations ==
    /\ pc = "ready"
    /\ service = [repo |-> TestEntity, useSoftDelete |-> FALSE]
    /\ \E stored \in StoredLinks :
          manager = EntityManager(TestEntityRows, TestRelationRows, stored, 0)
    /\ serviceCall = NoCall
    /\ filter = NoCall /\ where = NoResult /\ cmp = NoCall /\ cmpOut = NoResult
    /\ relCall = NoCall /\ relOut = NoResult
    /\ aggCall = NoCall /\ aggSelects = NoResult /\ aggRows = NoCall /\ aggOut = NoResult
    /\ linkCall = NoCall /\ linkOut = NoResult
    /\ rqbCall = NoCall /\ rqb = NoCall /\ rqbOut = NoResult
    /\ fqbCall = NoCall /\ fqbOut = NoResult /\ aggregateQb = NoCall
    /\ batchCall = NoCall /\ executions = NoCall /\ resultsMap = NoCall /\ batchOut = NoResult
    /\ memCall = NoCall /\ heap = NoCall /\ roots = NoCall /\ memOut = NoCall

AddRelations ==
    /\ pc \in {"ready", "returned"}
    /\ \E name \in RelationNames, id \in {Num(1), Num(9)}, ids \in RelationIdLists,
          opts \in ModifyRelationOpts :
          Served(RelationCall("addRelations", name, id, ids, opts),
                 RelationQueryServiceAddRelations(service, Restart(manager), name, id, ids, opts))

SetRelations ==
    /\ pc \in {"ready", "returned"}
    /\ \E name \in RelationNames, id \in {Num(1), Num(9)}, ids \in RelationIdLists,
          opts \in ModifyRelationOpts :
          Served(RelationCall("setRelations", name, id, ids, opts),
                 RelationQueryServiceSetRelations(service, Restart(manager), name, id, ids, opts))

RemoveRelations ==
    /\ pc \in {"ready", "returned"}
    /\ \E name \in RelationNames, id \in {Num(1), Num(9)}, ids \in RelationIdLists,
          opts \in ModifyRelationOpts :
          Served(RelationCall("removeRelations", name, id, ids, opts),
                 RelationQueryServiceRemoveRelations(service, Restart(manager), name, id, ids,
                                                     opts))

NextModifyRelations == AddRelations \/ SetRelations \/ RemoveRelations

SpecModifyRelations == InitModifyRelations /\ [][NextModifyRelations]_vars

(***************************************************************************)
(* Claims about soft delete.  A step of the service is a call: the store   *)
(* before it is manager.table, the call is serviceCall', and manager' is   *)
(* the store after it with what the call gave.                             *)
(***************************************************************************)
\* the filter, if one is given, holds of the row
Matches(f, row) == ~Truthy(f) \/ Holds(WhereBuilderBuild(f).val, row)

\* opts?.filter
FilterOfOptions(opts) == IF Truthy(opts) THEN Get(opts, "filter") ELSE Undefined

\* the row is not deleted
Live(row) == Get(row, "deletedAt") = Null

\* the rows with the primary key id
RowsOf(rows, id) == SelectSeq(rows, LAMBDA r : Get(r, "testEntityPk") = id)

\* the rows that are not deleted and match the filter, in the order of the table
LiveRows(rows, f) == SelectSeq(rows, LAMBDA r : Live(r) /\ Matches(f, r))

\* the rows are the same rows, whatever their deletedAt
SameButDeletedAt(before, after) ==
    /\ Len(after) = Len(before)
    /\ \A i \in 1..Len(before) :
          SetProp(after[i], "deletedAt", Null) = SetProp(before[i], "deletedAt", Null)

\* every row is as before, except that the rows the predicate Hit holds of have
\* become deleted (when deleted is TRUE) or live (when it is FALSE)
OnlyHitChanged(before, after, Hit(_), deleted) ==
    /\ SameButDeletedAt(before, after)
    /\ \A i \in 1..Len(before) :
          IF Hit(before[i]) THEN Live(after[i]) = ~deleted
          ELSE after[i] = before[i]

\* what the reads give of a store: the rows that are not deleted
ReadsGiveLive(call, before, out) ==
    /\ call.op = "query" => out = Return(Arr(LiveRows(before, call.filter)))
    /\ call.op = "count" => out = Return(Num(Len(LiveRows(before, call.filter))))
    /\ call.op \in {"findById", "getById"} =>
          IF LiveRows(RowsOf(before, call.id), FilterOfOptions(call.opts)) # <<>>
          THEN out = Return(LiveRows(RowsOf(before, call.id), FilterOfOptions(call.opts))[1])
          ELSE IF call.op = "findById" THEN out = Return(Undefined)
          ELSE out = UnableToFind(service, call.id)

\* what deleteOne and deleteMany do with soft delete
SoftDeletes(call, before, after, out) ==
    /\ call.op = "deleteOne" =>
          IF LiveRows(RowsOf(before, call.id), FilterOfOptions(call.opts)) # <<>>
          THEN /\ out.ok
               /\ Get(out.val, "testEntityPk") = call.id
               /\ ~Live(out.val)
               /\ OnlyHitChanged(before, after,
                                 LAMBDA r : Live(r) /\ Get(r, "testEntityPk") = call.id, TRUE)
          ELSE out = UnableToFind(service, call.id) /\ after = before
    /\ call.op = "deleteMany" =>
          /\ out = Return(Obj(<< <<"deletedCount", Num(Len(LiveRows(before, call.filter)))>> >>))
          /\ OnlyHitChanged(before, after, LAMBDA r : Live(r) /\ Matches(call.filter, r), TRUE)

\* what restoreOne and restoreMany do
Restores(call, before, after, out) ==
    /\ call.op = "restoreOne" =>
          IF \E i \in 1..Len(before) :
                /\ Get(before[i], "testEntityPk") = call.id
                /\ Matches(FilterOfOptions(call.opts), before[i])
          THEN /\ out.ok
               /\ Get(out.val, "testEntityPk") = call.id
               /\ Live(out.val)
               /\ OnlyHitChanged(before, after,
                                 LAMBDA r : ~Live(r) /\ Get(r, "testEntityPk") = call.id, FALSE)
          ELSE out = UnableToFind(service, call.id) /\ after = before
    /\ call.op = "restoreMany" =>
          /\ out.ok
          /\ OnlyHitChanged(before, after, LAMBDA r : ~Live(r) /\ Matches(call.filter, r), FALSE)

\* a deleted row stays deleted, with its date, until a restore
DeletedUntilRestored(call, before, after) ==
    \A i \in 1..Len(before) :
        (~Live(before[i]) /\ call.op \notin {"restoreOne", "restoreMany"}) =>
            /\ i <= Len(after)
            /\ Get(after[i], "deletedAt") = Get(before[i], "deletedAt")

\* deleteOne without soft delete: the row is gone and the entity returned has no
\* primary key
HardDeletes(call, before, after, out) ==
    (call.op = "deleteOne" /\ out.ok) =>
        /\ RowsOf(after, call.id) = <<>>
        /\ Len(after) = Len(before) - 1
        /\ \E i \in 1..Len(before) :
              /\ Get(before[i], "testEntityPk") = call.id
              /\ out.val = SetProp(before[i], "testEntityPk", Undefined)

\* C28: with useSoftDelete, over any sequence of calls, deleteOne and deleteMany
\* keep the row and set its deletedAt; query, count, findById and getById give only
\* rows that are not deleted, so that deleting a deleted entity again fails with
\* not-found; a deleted row stays deleted until restoreOne or restoreMany, which set
\* its deletedAt to null, after which the reads give it again.  Without
\* useSoftDelete, deleteOne removes the row and clears the primary key of the
\* entity it returns.
C28_SoftDeleteLifecycle ==
    [][IF service.useSoftDelete
       THEN /\ ReadsGiveLive(serviceCall', manager.table, manager'.out)
            /\ SoftDeletes(serviceCall', manager.table, manager'.table, manager'.out)
            /\ Restores(serviceCall', manager.table, manager'.table, manager'.out)
            /\ DeletedUntilRestored(serviceCall', manager.table, manager'.table)
       ELSE HardDeletes(serviceCall', manager.table, manager'.table, manager'.out)]_vars

\* an entity that was deleted with soft delete was deleted again, which failed
\* with not-found: its row is still stored, with deletedAt set
C28_Witness ==
    /\ pc = "returned"
    /\ service.useSoftDelete
    /\ serviceCall.op = "deleteOne"
    /\ serviceCall.opts = Undefined
    /\ manager.out = UnableToFind(service, serviceCall.id)
    /\ \E i \in 1..Len(manager.table) :
          /\ Get(manager.table[i], "testEntityPk") = serviceCall.id
          /\ ~Live(manager.table[i])

(***************************************************************************)
(* Claims about the guards of restore and update.                          *)
(***************************************************************************)
\* the call failed with the error before it did anything with the EntityManager,
\* and the store is as it was
FailedAtOnce(before, after, error) ==
    /\ after.out = error
    /\ after.log = <<>>
    /\ after.table = before.table

\* C30: on a service without useSoftDelete, restoreOne and restoreMany fail with
\* the method-not-allowed error, and updateOne and updateMany whose update carries
\* the primary-key field fail with 'Id cannot be specified when updating'; in both
\* cases before any entity is read or changed, and the stored rows are unchanged.
C30_GuardsFailFirst ==
    [][~service.useSoftDelete =>
          /\ serviceCall'.op \in {"restoreOne", "restoreMany"} =>
                FailedAtOnce(manager, manager', ensureSoftDeleteEnabled(service))
          /\ (serviceCall'.op \in {"updateOne", "updateMany"}
                /\ HasProp(serviceCall'.update, "testEntityPk")) =>
                FailedAtOnce(manager, manager',
                             Throw("Id cannot be specified when updating",
                                   Interpolate(Undefined)))]_vars

(***************************************************************************)
(* Claims about addRelations, setRelations and removeRelations.  A step is *)
(* a call: manager.links are the collections stored before it, and         *)
(* manager' is the EntityManager after it with what the call gave.         *)
(***************************************************************************)
\* the keys of the related entities in the collection of the entity id
LinkedTo(links, id) == {p[2] : p \in {q \in links : q[1] = id}}

\* the relation ids requested
Requested(relationIds) == {relationIds.v[i] : i \in 1..Len(relationIds.v)}

\* the relation id is the key of a related entity that passes the filter
Resolves(relatedRows, relationId, f) ==
    \E i \in 1..Len(relatedRows) :
        /\ Get(relatedRows[i], "testRelationPk") = relationId
        /\ Matches(f, relatedRows[i])

\* the words of the error of the method
Doing(op) ==
    CASE op = "addRelations" -> "to add to"
      [] op = "setRelations" -> "to set on"
      [] op = "removeRelations" -> "to remove from"

\* the call did nothing to any collection, in memory or stored
CollectionsUntouched(before, after) ==
    /\ after.links = before.links
    /\ after.members = before.links
    /\ after.table = before.table
    /\ \A k \in 1..Len(after.log) : after.log[k] \notin {"flush", "add", "set", "remove"}

\* what a call on the collection of an entity that exists gives and leaves
ModifiesRelations(svc, call, before, after) ==
    LET requested == Requested(call.relationIds)
    IN IF /\ requested # {}
          /\ \E r \in requested : ~Resolves(before.related, r, RelationFilterOf(call.opts))
       THEN /\ after.out = UnableToFindAll(svc, call.relationName, Doing(call.op))
            /\ CollectionsUntouched(before, after)
       ELSE /\ after.out.ok
            /\ {p \in after.links : p[1] # call.id} = {p \in before.links : p[1] # call.id}
            /\ CASE call.op = "addRelations" ->
                      LinkedTo(after.links, call.id)
                          = LinkedTo(before.links, call.id) \cup requested
                 [] call.op = "setRelations" ->
                      LinkedTo(after.links, call.id) = requested
                 [] call.op = "removeRelations" ->
                      LinkedTo(after.links, call.id)
                          = LinkedTo(before.links, call.id) \ requested

\* C29: addRelations, setRelations and removeRelations on a collection of an entity
\* that exists, with ids of which one (duplicates or not) is not the key of a
\* related entity passing the relation filter, fail with 'Unable to find all ...',
\* the collection untouched and nothing flushed; when they succeed the collection
\* holds all (add), exactly (set) or none (remove) of the requested relations
\* afterwards, and setRelations with no ids empties it.
C29_AllFoundOrUntouched ==
    [][(serviceCall'.id = Num(1) /\ serviceCall'.relationName = "manyTestRelations")
          => ModifiesRelations(service, serviceCall', manager, manager')]_vars

\* addRelations was called with ids of which one is given twice and one is not the
\* key of a related entity: it failed, and flushed nothing
C29_Witness ==
    /\ pc = "returned"
    /\ serviceCall.op = "addRelations"
    /\ serviceCall.id = Num(1)
    /\ serviceCall.relationName = "manyTestRelations"
    /\ serviceCall.relationIds = Arr(<<Num(1), Num(1), Num(9)>>)
    /\ manager.out = UnableToFindAll(service, "manyTestRelations", "to add to")
    /\ \A k \in 1..Len(manager.log) : manager.log[k] # "flush"

=============================================================================
